---------------------------- MODULE Spec2Model ----------------------------
(***************************************************************************)
(* Model of the cvd instance registry (selector/instance_database.cpp) of  *)
(* android-cuttlefish.                                                     *)
(*                                                                         *)
(* The persisted registry is a cvd::PersistentData message: an ordered     *)
(* list of instance groups and the acloud-translator-optout flag.  Every   *)
(* public operation of InstanceDatabase runs a callback on that message    *)
(* under the shared or the exclusive lock of the backing file.             *)
(***************************************************************************)
EXTENDS Integers, Sequences, FiniteSets, TLC

(***************************************************************************)
(* Bounds of the model.                                                    *)
(***************************************************************************)
\* Largest number of groups the persisted registry holds in the model.
MaxGroups == 2
\* Largest number of instances of one group.
MaxInstancesPerGroup == 2
\* Largest number of signals delivered to the process while it handles
\* start requests.
MaxSignals == 2

\* The longest argument list of a start request.
MaxArgs == 2

(***************************************************************************)
(* Value universes.                                                        *)
(***************************************************************************)
GroupNames == {"g1", "g2"}
\* A group name IsValidGroupName rejects.
IllFormedGroupName == "9x"
HomeDirs == {"/h1", "/h2"}
InstanceIds == {1, 2}
InstanceNames == {"a", "b"}

\* cvd::Instance: id and per-instance name.
InstanceProtos == [id : InstanceIds, name : InstanceNames]

\* All sequences over S of length 0..n.
SeqsUpTo(S, n) == UNION {[1..k -> S] : k \in 0..n}

\* Instance lists of one group: non-empty, ids increasing, names distinct
\* (the lists the group-creation analyzer and LocalInstanceGroup produce).
InstanceLists ==
    {l \in SeqsUpTo(InstanceProtos, MaxInstancesPerGroup) :
        /\ Len(l) >= 1
        /\ \A i, j \in 1..Len(l) : i < j => l[i].id < l[j].id /\ l[i].name # l[j].name}

\* cvd::InstanceGroup messages with a well-formed name.
GroupProtos == [name : GroupNames, home_directory : HomeDirs, instances : InstanceLists]

\* Arguments of AddInstanceGroup: any group message, well-formed name or not.
AddArgs ==
    [name : GroupNames \cup {IllFormedGroupName}, home_directory : HomeDirs,
     instances : InstanceLists]

VARIABLES
    data,     \* the persisted cvd::PersistentData (content of the backing file)
    pre,      \* the persisted data when the last call took its lock
    last,     \* the last public operation and its result
    arg,      \* the argument of the last call
    ret,      \* the value the last call returned (a list of groups or instances)
    addPre,   \* <<d>>: d is the registry just before the latest successful AddInstanceGroup
    param,    \* the FindParam of the last query
    lock,     \* the request handler holding the exclusive lock, or NoHandler
    hpc,      \* per request handler: where it is in its AddInstanceGroup call
    harg,     \* per request handler: the argument of its call
    hview,    \* per request handler: the view of the data its callback works on
    hres,     \* per request handler: the result of its call
    signal_pipe_write_end,  \* the atomic slot of the signal pipe
    signal_handlers,  \* what SIGINT, SIGHUP and SIGTERM are handled by
    fd_table,         \* per file descriptor: "unused", "open" or "closed"
    pipe_bytes,       \* per pipe: the signal numbers written and not yet read
    handle,           \* per start request: the state of its Handle call
    interrupter_thread,  \* per start request: the state of its interrupter thread
    interrupt_handler,   \* per signal delivery: the state of its InterruptHandler run
    child,            \* per start request: the launcher child and its run_cvd processes
    events,           \* per start request: what it has done so far, in order
    process           \* the cvd server process: what went wrong in it, if anything

\* The record of the last call, kept by the sequential specifications.
callVars == <<pre, last, arg, ret, addPre, param>>

\* The state of the concurrent request handlers.
handlerVars == <<lock, hpc, harg, hview, hres>>

\* The state of the start requests and of the signal pipe.
startVars ==
    <<signal_pipe_write_end, signal_handlers, fd_table, pipe_bytes, handle,
      interrupter_thread, interrupt_handler, child, events, process>>

vars ==
    <<data, pre, last, arg, ret, addPre, param, lock, hpc, harg, hview, hres,
      signal_pipe_write_end, signal_handlers, fd_table, pipe_bytes, handle,
      interrupter_thread, interrupt_handler, child, events, process>>

groups == data.instance_groups

(***************************************************************************)
(* Collaborators of InstanceDatabase that live outside the modelled files. *)
(***************************************************************************)
\* IsValidGroupName: the name follows the group-name rule.
IsValidGroupName(name) == name \in GroupNames

\* IsValidInstanceName: the name follows the instance-name rule.
IsValidInstanceName(name) == name \in InstanceNames

\* LocalInstanceGroup::Create: the group message re-validates.
Create(group_proto) ==
    /\ IsValidGroupName(group_proto.name)
    /\ \A i \in 1..Len(group_proto.instances) :
           IsValidInstanceName(group_proto.instances[i].name)

\* LocalInstanceGroup::FindById: the instances of the group with that id.
FindById(group, id) ==
    SelectSeq(group.instances, LAMBDA instance : instance.id = id)

\* LocalInstanceGroup::FindByInstanceName: the instances with that name.
FindByInstanceName(group, instance_name) ==
    SelectSeq(group.instances, LAMBDA instance : instance.name = instance_name)

\* The LocalInstance record of an instance of a group: its id, the name of
\* its group and its per-instance name.
LocalInstance(group, instance) ==
    [instance_id |-> instance.id, group_name |-> group.name,
     per_instance_name |-> instance.name]

\* A fault of WithExclusiveLock: the view is written back whatever the
\* callback returned.
WithExclusiveLockAlwaysWrites(d, result) == result.data

\* DataViewer::WithExclusiveLock: the callback's view replaces the backing
\* file iff the callback succeeded; on failure the file is not modified.
WithExclusiveLock(d, result) == IF result.ok THEN result.data ELSE d

(***************************************************************************)
(* FindParam: four optional fields, each the empty set (not set) or a      *)
(* singleton.                                                              *)
(***************************************************************************)
Optional(S) == {{}} \cup {{x} : x \in S}

FindParams ==
    [home : Optional(HomeDirs), id : Optional(InstanceIds),
     group_name : Optional(GroupNames), instance_name : Optional(InstanceNames)]

NoParam == [home |-> {}, id |-> {}, group_name |-> {}, instance_name |-> {}]

(***************************************************************************)
(* The query engine: the static FindGroups and FindInstances.              *)
(***************************************************************************)
RECURSIVE FindGroupsFromSameInstance(_, _, _)
\* A fault of FindGroups: with id and instance name both set, one instance
\* of the group has to have both.
FindGroupsFromSameInstance(gs, p, i) ==
    IF i > Len(gs) THEN <<>>
    ELSE LET group == gs[i]
             rest == FindGroupsFromSameInstance(gs, p, i + 1)
         IN  IF p.home # {} /\ p.home # {group.home_directory} THEN rest
             ELSE IF p.group_name # {} /\ p.group_name # {group.name} THEN rest
             ELSE IF \E k \in 1..Len(group.instances) :
                         /\ p.id = {} \/ group.instances[k].id \in p.id
                         /\ p.instance_name = {}
                                \/ group.instances[k].name \in p.instance_name
                  THEN <<group>> \o rest
             ELSE rest

RECURSIVE FindGroupsFrom(_, _, _)
\* The loop of FindGroups from the i-th group on.
FindGroupsFrom(gs, p, i) ==
    IF i > Len(gs) THEN <<>>
    ELSE LET group == gs[i]
             rest == FindGroupsFrom(gs, p, i + 1)
         IN  IF p.home # {} /\ p.home # {group.home_directory} THEN rest
             ELSE IF p.group_name # {} /\ p.group_name # {group.name} THEN rest
             ELSE IF p.id # {} /\ (\E x \in p.id : FindById(group, x) = <<>>) THEN rest
             ELSE IF p.instance_name # {}
                     /\ (\E n \in p.instance_name : FindByInstanceName(group, n) = <<>>)
                  THEN rest
             ELSE <<group>> \o rest

FindGroups(d, p) == FindGroupsFrom(d.instance_groups, p, 1)

RECURSIVE FindInstancesInAnyOfGroup(_, _, _)
\* A fault of FindInstances: the instance name is looked for among all
\* instances of the group, as FindGroups does.
FindInstancesInAnyOfGroup(group, p, k) ==
    IF k > Len(group.instances) THEN <<>>
    ELSE LET instance == group.instances[k]
             rest == FindInstancesInAnyOfGroup(group, p, k + 1)
         IN  IF p.id # {} /\ p.id # {instance.id} THEN rest
             ELSE IF p.instance_name # {}
                     /\ (\E n \in p.instance_name : FindByInstanceName(group, n) = <<>>)
                  THEN rest
             ELSE <<LocalInstance(group, instance)>> \o rest

RECURSIVE FindInstancesIn(_, _, _)
\* The inner loop of FindInstances over the instances of one group.
FindInstancesIn(group, p, k) ==
    IF k > Len(group.instances) THEN <<>>
    ELSE LET instance == group.instances[k]
             rest == FindInstancesIn(group, p, k + 1)
         IN  IF p.id # {} /\ p.id # {instance.id} THEN rest
             ELSE IF p.instance_name # {} /\ p.instance_name # {instance.name} THEN rest
             ELSE <<LocalInstance(group, instance)>> \o rest

RECURSIVE FindInstancesFrom(_, _, _)
\* The outer loop of FindInstances from the i-th group on.
FindInstancesFrom(gs, p, i) ==
    IF i > Len(gs) THEN <<>>
    ELSE LET group == gs[i]
             rest == FindInstancesFrom(gs, p, i + 1)
         IN  IF p.group_name # {} /\ p.group_name # {group.name} THEN rest
             ELSE IF p.home # {} /\ p.home # {group.home_directory} THEN rest
             ELSE FindInstancesIn(group, p, 1) \o rest

FindInstances(d, p) == FindInstancesFrom(d.instance_groups, p, 1)

\* The callback of InstanceGroups (ListGroups): every stored group, in
\* order; fails when a stored group does not re-validate.
InstanceGroups(d) ==
    IF \A i \in 1..Len(d.instance_groups) : Create(d.instance_groups[i])
    THEN [ok |-> TRUE, value |-> d.instance_groups]
    ELSE [ok |-> FALSE, value |-> <<>>]

\* The callback of IsEmpty.
IsEmpty(d) == d.instance_groups = <<>>

(***************************************************************************)
(* The callbacks the mutating operations run under the exclusive lock.     *)
(* Each yields whether it succeeded, the view as it left it, the value it  *)
(* returns and, on failure, which check failed.                            *)
(***************************************************************************)
Ok(d, value) == [ok |-> TRUE, data |-> d, value |-> value, error |-> "none"]
Err(d, error) == [ok |-> FALSE, data |-> d, value |-> <<>>, error |-> error]

\* A fault of GroupConflict: the two fields of the lookup are swapped.
GroupConflictSwappedFields(d, group_proto) ==
    FindGroups(d, [NoParam EXCEPT !.home = {group_proto.name},
                                  !.group_name = {group_proto.home_directory}]) # <<>>

\* The new group matches a stored group by home and group name.
GroupConflict(d, group_proto) ==
    FindGroups(d, [NoParam EXCEPT !.home = {group_proto.home_directory},
                                  !.group_name = {group_proto.name}]) # <<>>

\* A fault of InstanceConflict: only the first instance of the new group is
\* looked up.
InstanceConflictFirstOnly(d, group_proto) ==
    FindInstances(d, [NoParam EXCEPT !.id = {group_proto.instances[1].id}]) # <<>>

\* An instance of the new group has the id of a stored instance.
InstanceConflict(d, group_proto) ==
    \E k \in 1..Len(group_proto.instances) :
        FindInstances(d, [NoParam EXCEPT !.id = {group_proto.instances[k].id}]) # <<>>

\* The callback of AddInstanceGroup.
AddInstanceGroupLocked(d, group_proto) ==
    IF GroupConflict(d, group_proto) THEN Err(d, "Conflict")
    ELSE IF InstanceConflict(d, group_proto) THEN Err(d, "Conflict")
    ELSE LET appended ==
                 [d EXCEPT !.instance_groups = Append(d.instance_groups, group_proto)]
         IN  IF Create(group_proto) THEN Ok(appended, <<group_proto>>)
             ELSE Err(appended, "Invalid")

\* AddInstanceGroup: the validation before the lock, then the callback.
\* dirs_ok: the home directory exists or was created and the host-artifacts
\* path is a tool directory (both depend on the filesystem).
AddInstanceGroupResult(d, group_proto, dirs_ok) ==
    IF ~IsValidGroupName(group_proto.name) THEN Err(d, "Invalid")
    ELSE IF ~dirs_ok THEN Err(d, "Invalid")
    ELSE IF \E k \in 1..Len(group_proto.instances) :
                ~IsValidInstanceName(group_proto.instances[k].name)
         THEN Err(d, "Invalid")
    ELSE AddInstanceGroupLocked(d, group_proto)

\* A fault of EraseFirst: every group of that name is erased.
EraseEveryMatch(gs, group_name, i) ==
    [erased |-> \E k \in i..Len(gs) : gs[k].name = group_name,
     groups |-> SubSeq(gs, 1, i - 1)
                \o SelectSeq(SubSeq(gs, i, Len(gs)), LAMBDA g : g.name # group_name)]

RECURSIVE EraseFirst(_, _, _)
\* The loop of RemoveInstanceGroup from the i-th group on: the list with the
\* first group of that name erased, or no change.
EraseFirst(gs, group_name, i) ==
    IF i > Len(gs) THEN [erased |-> FALSE, groups |-> gs]
    ELSE IF gs[i].name = group_name
         THEN [erased |-> TRUE,
               groups |-> SubSeq(gs, 1, i - 1) \o SubSeq(gs, i + 1, Len(gs))]
    ELSE EraseFirst(gs, group_name, i + 1)

\* The callback of RemoveInstanceGroup.
RemoveInstanceGroupLocked(d, group_name) ==
    LET e == EraseFirst(d.instance_groups, group_name, 1)
    IN  Ok([d EXCEPT !.instance_groups = e.groups], e.erased)

\* A fault of ClearLocked: the copy is taken after the groups were cleared.
ClearLockedCopyAfterClear(d) ==
    LET cleared == [d EXCEPT !.instance_groups = <<>>]
        copy == cleared.instance_groups
    IN  IF \A i \in 1..Len(copy) : Create(copy[i]) THEN Ok(cleared, copy)
        ELSE Err(cleared, "Invalid")

\* The callback of Clear.
ClearLocked(d) ==
    LET copy == d.instance_groups
        cleared == [d EXCEPT !.instance_groups = <<>>]
    IN  IF \A i \in 1..Len(copy) : Create(copy[i]) THEN Ok(cleared, copy)
        ELSE Err(cleared, "Invalid")

\* The JSON values LoadFromJson is given: an object with or without the key
\* "Groups", whose value is an array or not; each element of the array
\* deserializes to a group (parses) or fails to.
JsonElems ==
    [parses : {TRUE}, group : GroupProtos]
        \cup {[parses |-> FALSE, group |-> CHOOSE g \in GroupProtos : TRUE]}

\* Arrays of at most n elements under the key "Groups", and the two
\* ill-formed documents.
JsonValues(n) ==
    [isMember : {TRUE}, isArray : {TRUE}, group_array : SeqsUpTo(JsonElems, n)]
        \cup {[isMember |-> FALSE, isArray |-> FALSE, group_array |-> <<>>],
              [isMember |-> TRUE, isArray |-> FALSE, group_array |-> <<>>]}

\* LocalInstanceGroup::Deserialize succeeds on the element.
Deserializes(elem) == elem.parses

\* The groups LocalInstanceGroup::Deserialize yields for the array.
Deserialize(group_array) == [i \in 1..Len(group_array) |-> group_array[i].group]

\* The callback of LoadFromJson.
LoadFromJsonLocked(d, new_groups) ==
    Ok([d EXCEPT !.instance_groups = d.instance_groups \o new_groups], <<>>)

\* LoadFromJson: the parsing before the lock, then the callback.
LoadFromJsonResult(d, db_json) ==
    IF ~db_json.isMember THEN Err(d, "Invalid")
    ELSE IF ~db_json.isArray THEN Err(d, "Invalid")
    ELSE IF \E i \in 1..Len(db_json.group_array) : ~Deserializes(db_json.group_array[i])
         THEN Err(d, "Invalid")
    ELSE LoadFromJsonLocked(d, Deserialize(db_json.group_array))

\* The callback of SetAcloudTranslatorOptout.
SetAcloudTranslatorOptoutLocked(d, optout) ==
    Ok([d EXCEPT !.acloud_translator_optout = optout], <<>>)

(***************************************************************************)
(* The registry as a state machine: one action per public operation, each  *)
(* one exclusive-lock scope.  last, ret and addPre record the call for the *)
(* caller; Return is the caller taking the result, after which the next    *)
(* call starts.  RemoveInstanceGroup may also directly follow an           *)
(* AddInstanceGroup, with no other operation in between.                   *)
(***************************************************************************)
EmptyData == [instance_groups |-> <<>>, acloud_translator_optout |-> FALSE]

NoCall == [op |-> "none", res |-> "none", undo |-> FALSE]

NoArg == <<>>

\* The request handlers that call AddInstanceGroup concurrently.
Handlers == {"h1", "h2"}

NoHandler == "none"

HandlersIdle ==
    /\ lock = NoHandler
    /\ hpc = [h \in Handlers |-> "idle"]
    /\ harg = [h \in Handlers |-> NoArg]
    /\ hview = [h \in Handlers |-> EmptyData]
    /\ hres = [h \in Handlers |-> "none"]

(***************************************************************************)
(* The start requests (server_command/start.cpp): the signal pipe, the     *)
(* request threads, their interrupter threads and their launcher children. *)
(***************************************************************************)
\* The sentinels of signal_pipe_write_end.
CLOSED_FD == -1
IN_USE_FD == -2

\* The start requests the server handles.
Requests == {"r1", "r2"}

\* pipe2: the descriptors of the pipe a request creates; fds0 is the end
\* open for reading, fds1 the end open for writing.  A number stands for
\* one open file description and is not given out again.
pipe2(r) == IF r = "r1" THEN [fds0 |-> 3, fds1 |-> 4] ELSE [fds0 |-> 5, fds1 |-> 6]

Fds == UNION {{pipe2(r).fds0, pipe2(r).fds1} : r \in Requests}

\* The request whose pipe the descriptor belongs to.
PipeOf(fd) == CHOOSE r \in Requests : fd \in {pipe2(r).fds0, pipe2(r).fds1}

OpenForReading(fd) == fd = pipe2(PipeOf(fd)).fds0
OpenForWriting(fd) == fd = pipe2(PipeOf(fd)).fds1

\* The deliveries of SIGINT, SIGHUP or SIGTERM to the process.
Deliveries == 1..MaxSignals

\* Result<cvd::Response>: an error, or a response with its status code,
\* its message and the instance group info it carries.
\* siginfo_t of a waited child: how it ended and its exit code or signal.
NoInfop == [si_code |-> "none", si_status |-> 0]

NoResult ==
    [ok |-> FALSE, code |-> "none", message |-> "none", infop |-> NoInfop, info |-> <<>>]
Error(message) == [NoResult EXCEPT !.message = message]
CommandResponse(code, message) ==
    [ok |-> TRUE, code |-> code, message |-> message, infop |-> NoInfop, info |-> <<>>]

NoPlan == <<>>

StartIdle ==
    /\ signal_pipe_write_end = CLOSED_FD
    /\ signal_handlers = "SIG_DFL"
    /\ fd_table = [fd \in Fds |-> "unused"]
    /\ pipe_bytes = [r \in Requests |-> 0]
    /\ handle = [r \in Requests |->
                   [pc |-> "idle", path |-> "none", request |-> <<>>, is_default_group |-> FALSE,
                    group_creation_info |-> NoPlan,
                    fd |-> CLOSED_FD, signals_fd |-> CLOSED_FD, before |-> EmptyData,
                    launch_res |-> NoResult, response |-> NoResult]]
    /\ interrupter_thread = [r \in Requests |-> "none"]
    /\ interrupt_handler =
           [k \in Deliveries |->
               [pc |-> "none", fd |-> CLOSED_FD, wrote |-> FALSE, supervised |-> FALSE]]
    /\ child = [r \in Requests |->
                  [launcher |-> "none", infop |-> NoInfop, run_cvd |-> FALSE]]
    /\ events = [r \in Requests |-> <<>>]
    /\ process = [state |-> "running", bad_fd |-> FALSE]

Init ==
    /\ data = EmptyData
    /\ pre = EmptyData
    /\ last = NoCall
    /\ arg = NoArg
    /\ ret = <<>>
    /\ addPre = <<>>
    /\ param = NoParam
    /\ HandlersIdle
    /\ StartIdle

Outcome(result) == IF result.ok THEN "ok" ELSE result.error

AddInstanceGroup(group_proto, dirs_ok) ==
    LET result == AddInstanceGroupResult(data, group_proto, dirs_ok)
    IN  /\ last = NoCall
        /\ Len(groups) < MaxGroups
        /\ data' = WithExclusiveLock(data, result)
        /\ pre' = data
        /\ last' = [op |-> "AddInstanceGroup", res |-> Outcome(result), undo |-> FALSE]
        /\ arg' = [group_proto |-> group_proto, dirs_ok |-> dirs_ok]
        /\ ret' = result.value
        /\ addPre' = IF result.ok THEN <<data>> ELSE <<>>
        /\ UNCHANGED <<param, handlerVars, startVars>>

\* undo: the call directly follows a successful AddInstanceGroup and names
\* the group that call added.
RemoveInstanceGroup(group_name) ==
    LET result == RemoveInstanceGroupLocked(data, group_name)
        undo == /\ last.op = "AddInstanceGroup"
                /\ last.res = "ok"
                /\ arg.group_proto.name = group_name
    IN  /\ last.op \in {"none", "AddInstanceGroup"}
        /\ data' = WithExclusiveLock(data, result)
        /\ pre' = data
        /\ last' = [op |-> "RemoveInstanceGroup",
                    res |-> IF result.value THEN "true" ELSE "false", undo |-> undo]
        /\ arg' = [group_name |-> group_name]
        /\ ret' = <<>>
        /\ addPre' = IF undo THEN addPre ELSE <<>>
        /\ UNCHANGED <<param, handlerVars, startVars>>

Clear ==
    LET result == ClearLocked(data)
    IN  /\ last = NoCall
        /\ data' = WithExclusiveLock(data, result)
        /\ pre' = data
        /\ last' = [op |-> "Clear", res |-> Outcome(result), undo |-> FALSE]
        /\ ret' = result.value
        /\ UNCHANGED <<arg, addPre, param, handlerVars, startVars>>

LoadFromJson(db_json) ==
    LET result == LoadFromJsonResult(data, db_json)
    IN  /\ last = NoCall
        /\ data' = WithExclusiveLock(data, result)
        /\ pre' = data
        /\ last' = [op |-> "LoadFromJson", res |-> Outcome(result), undo |-> FALSE]
        /\ arg' = db_json
        /\ UNCHANGED <<ret, addPre, param, handlerVars, startVars>>

SetAcloudTranslatorOptout(optout) ==
    LET result == SetAcloudTranslatorOptoutLocked(data, optout)
    IN  /\ last = NoCall
        /\ data' = WithExclusiveLock(data, result)
        /\ pre' = data
        /\ last' = [op |-> "SetAcloudTranslatorOptout", res |-> Outcome(result),
                    undo |-> FALSE]
        /\ arg' = [optout |-> optout]
        /\ UNCHANGED <<ret, addPre, param, handlerVars, startVars>>

\* The caller has taken the result of the last call.
Return ==
    /\ last # NoCall
    /\ last' = NoCall
    /\ pre' = data
    /\ arg' = NoArg
    /\ ret' = <<>>
    /\ addPre' = <<>>
    /\ param' = NoParam
    /\ UNCHANGED <<data, handlerVars, startVars>>

Next ==
    \/ \E group_proto \in AddArgs, dirs_ok \in BOOLEAN :
           AddInstanceGroup(group_proto, dirs_ok)
    \/ \E group_name \in GroupNames : RemoveInstanceGroup(group_name)
    \/ Clear
    \/ /\ last = NoCall
       /\ \E db_json \in JsonValues(MaxGroups - Len(groups)) : LoadFromJson(db_json)
    \/ \E optout \in BOOLEAN : SetAcloudTranslatorOptout(optout)
    \/ Return

Spec == Init /\ [][Next]_vars

(***************************************************************************)
(* The read operations: each runs its callback on the persisted data under *)
(* the shared lock and changes nothing.  QuerySpec starts from any list of *)
(* well-formed groups (LoadFromJson appends any such list to the empty     *)
(* registry) and makes one query.  Every stored group is well formed here, *)
(* so the CHECK on LocalInstanceGroup::Create in the query engine passes.  *)
(***************************************************************************)
Query(op, p, value) ==
    /\ last = NoCall
    /\ last' = [op |-> op, res |-> "ok", undo |-> FALSE]
    /\ param' = p
    /\ ret' = value
    /\ pre' = data
    /\ UNCHANGED <<data, arg, addPre, handlerVars, startVars>>

FindGroupsQuery(p) == Query("FindGroups", p, FindGroups(data, p))

FindInstancesQuery(p) == Query("FindInstances", p, FindInstances(data, p))

InstanceGroupsQuery ==
    /\ InstanceGroups(data).ok
    /\ Query("InstanceGroups", NoParam, InstanceGroups(data).value)

IsEmptyQuery == Query("IsEmpty", NoParam, <<IsEmpty(data)>>)

QueryInit ==
    /\ data \in [instance_groups : SeqsUpTo(GroupProtos, MaxGroups),
                 acloud_translator_optout : {FALSE}]
    /\ pre = data
    /\ last = NoCall
    /\ arg = NoArg
    /\ ret = <<>>
    /\ addPre = <<>>
    /\ param = NoParam
    /\ HandlersIdle
    /\ StartIdle

\* The filters of the queries.  The stored lists range over all groups, and
\* swapping the two homes, or the two group names, maps stored lists onto
\* stored lists; a filter on home or group name therefore names the first
\* home and the first group name only.
QueryParams ==
    {p \in FindParams : p.home \subseteq {"/h1"} /\ p.group_name \subseteq {"g1"}}

QueryNext ==
    \/ \E p \in QueryParams : FindGroupsQuery(p)
    \/ \E p \in QueryParams : FindInstancesQuery(p)
    \/ InstanceGroupsQuery
    \/ IsEmptyQuery

QuerySpec == QueryInit /\ [][QueryNext]_vars

(***************************************************************************)
(* RemoveSpec starts from any list of well-formed groups, one longer than  *)
(* the lists of the other specifications so that a removal leaves several  *)
(* groups behind, and makes one RemoveInstanceGroup call.  Swapping the    *)
(* two group names maps stored lists onto stored lists, so the call names  *)
(* the first group name.                                                   *)
(***************************************************************************)
RemoveInit ==
    /\ data \in [instance_groups : SeqsUpTo(GroupProtos, MaxGroups + 1),
                 acloud_translator_optout : BOOLEAN]
    /\ pre = data
    /\ last = NoCall
    /\ arg = NoArg
    /\ ret = <<>>
    /\ addPre = <<>>
    /\ param = NoParam
    /\ HandlersIdle
    /\ StartIdle

RemoveNext == RemoveInstanceGroup("g1")

RemoveSpec == RemoveInit /\ [][RemoveNext]_vars

(***************************************************************************)
(* Concurrent request handlers.  Each handler makes one AddInstanceGroup   *)
(* call, in the steps of the code: the validation before the lock, taking  *)
(* the exclusive lock (the callback then sees the data as persisted at     *)
(* that moment), the callback on that view, and the end of the lock scope, *)
(* where the view is persisted iff the callback succeeded.  Taking the     *)
(* lock waits until no handler holds it.                                   *)
(***************************************************************************)
\* Lines 67-78: the validation before the lock; the call ends there when
\* it fails.  lock_at_call records who held the lock when the call began.
HandlerCall(h, group_proto, dirs_ok) ==
    LET valid == AddInstanceGroupResult(EmptyData, group_proto, dirs_ok).ok
    IN  /\ hpc[h] = "idle"
        /\ harg' = [harg EXCEPT ![h] = [group_proto |-> group_proto, dirs_ok |-> dirs_ok,
                                        lock_at_call |-> lock]]
        /\ hpc' = [hpc EXCEPT ![h] = IF valid THEN "validated" ELSE "done"]
        /\ hres' = [hres EXCEPT ![h] = IF valid THEN "none" ELSE "Invalid"]
        /\ UNCHANGED <<data, lock, hview, callVars, startVars>>

\* WithExclusiveLock entered: the lock is free and becomes the handler's.
HandlerLock(h) ==
    /\ hpc[h] = "validated"
    /\ lock = NoHandler
    /\ lock' = h
    /\ hview' = [hview EXCEPT ![h] = data]
    /\ hpc' = [hpc EXCEPT ![h] = "locked"]
    /\ UNCHANGED <<data, harg, hres, callVars, startVars>>

\* Lines 80-100: the callback works on the handler's view.
HandlerCallback(h) ==
    LET result == AddInstanceGroupLocked(hview[h], harg[h].group_proto)
    IN  /\ hpc[h] = "locked"
        /\ hview' = [hview EXCEPT ![h] = result.data]
        /\ hres' = [hres EXCEPT ![h] = Outcome(result)]
        /\ hpc' = [hpc EXCEPT ![h] = "ran"]
        /\ UNCHANGED <<data, lock, harg, callVars, startVars>>

\* WithExclusiveLock left: the view is persisted iff the callback
\* succeeded, and the lock is released.
HandlerUnlock(h) ==
    /\ hpc[h] = "ran"
    /\ data' = WithExclusiveLock(data, [ok |-> hres[h] = "ok", data |-> hview[h]])
    /\ lock' = NoHandler
    /\ hpc' = [hpc EXCEPT ![h] = "done"]
    /\ UNCHANGED <<harg, hview, hres, callVars, startVars>>

HandlersNext ==
    \/ \E h \in Handlers, group_proto \in AddArgs, dirs_ok \in BOOLEAN :
           HandlerCall(h, group_proto, dirs_ok)
    \/ \E h \in Handlers : HandlerLock(h)
    \/ \E h \in Handlers : HandlerCallback(h)
    \/ \E h \in Handlers : HandlerUnlock(h)

HandlersSpec == Init /\ [][HandlersNext]_vars

(***************************************************************************)
(* The daemon flags of a start request.  An argument is a string, modelled *)
(* as the sequence of its characters, so that prefixes, substrings and     *)
(* letter case are computed as the code computes them.                     *)
(***************************************************************************)
StartsWith(s, prefix) ==
    Len(prefix) <= Len(s) /\ SubSeq(s, 1, Len(prefix)) = prefix

\* s.find(sub) != npos
Found(s, sub) ==
    \E i \in 1..(Len(s) - Len(sub) + 1) : SubSeq(s, i, i + Len(sub) - 1) = sub

ToLower(c) ==
    CASE c = "Y" -> "y" [] c = "E" -> "e" [] c = "S" -> "s" [] c = "T" -> "t"
      [] c = "R" -> "r" [] c = "U" -> "u" [] c = "N" -> "n" [] c = "O" -> "o"
      [] c = "F" -> "f" [] c = "A" -> "a" [] c = "L" -> "l" [] OTHER -> c

EqualsIgnoreCase(a, b) ==
    Len(a) = Len(b) /\ \A i \in 1..Len(a) : ToLower(a[i]) = ToLower(b[i])

daemon == <<"d", "a", "e", "m", "o", "n">>

\* Lines 561-567: the aliases of the flag, in the order they are tried.
DaemonAliases ==
    <<[mode |-> "kFlagPrefix", name |-> <<"-">> \o daemon \o <<"=">>],
      [mode |-> "kFlagPrefix", name |-> <<"-", "-">> \o daemon \o <<"=">>],
      [mode |-> "kFlagExact", name |-> <<"-">> \o daemon],
      [mode |-> "kFlagExact", name |-> <<"-", "-">> \o daemon],
      [mode |-> "kFlagExact", name |-> <<"-", "n", "o">> \o daemon],
      [mode |-> "kFlagExact", name |-> <<"-", "-", "n", "o">> \o daemon]>>

kValidTrueStrings == {<<"y">>, <<"y", "e", "s">>, <<"t", "r", "u", "e">>}

NoMatch == [matched |-> FALSE, key |-> <<>>, value |-> <<>>]

RECURSIVE FlagMatch(_, _)
\* Flag::Process from the i-th alias on: an exact alias matches the argument
\* that equals it, with the argument as key and as value; a prefix alias
\* matches the argument that starts with it, with the alias as key and the
\* rest of the argument as value.
FlagMatch(a, i) ==
    IF i > Len(DaemonAliases) THEN NoMatch
    ELSE LET alias == DaemonAliases[i]
         IN  IF alias.mode = "kFlagExact" /\ a = alias.name
             THEN [matched |-> TRUE, key |-> a, value |-> a]
             ELSE IF alias.mode = "kFlagPrefix" /\ StartsWith(a, alias.name)
             THEN [matched |-> TRUE, key |-> alias.name,
                   value |-> SubSeq(a, Len(alias.name) + 1, Len(a))]
             ELSE FlagMatch(a, i + 1)

\* Lines 568-596: the setter of the flag; TRUE when it accepts the match.
\* A value that is n, no or false and any other value that is not a true
\* string are both refused (lines 589-596).
Setter(match) ==
    IF match.key = match.value THEN ~Found(match.key, <<"n", "o">>)
    ELSE /\ ~Found(match.value, <<",">>)
         /\ \E true_string \in kValidTrueStrings :
                EqualsIgnoreCase(true_string, match.value)

RECURSIVE ConsumeFlags(_, _)
\* ConsumeFlags from the i-th argument on: a matched argument is given to
\* the setter and erased, the first match the setter refuses ends the call
\* with its error, any other argument stays.
ConsumeFlags(args, i) ==
    IF i > Len(args) THEN [ok |-> TRUE, args |-> args]
    ELSE LET match == FlagMatch(args[i], 1)
         IN  IF ~match.matched THEN ConsumeFlags(args, i + 1)
             ELSE IF ~Setter(match) THEN [ok |-> FALSE, args |-> args]
             ELSE ConsumeFlags(SubSeq(args, 1, i - 1) \o SubSeq(args, i + 1, Len(args)), i)

\* Lines 559-600.
ConsumeDaemonModeFlag(args) == ConsumeFlags(args, 1)

DaemonTrue == <<"-", "-">> \o daemon \o <<"=", "t", "r", "u", "e">>

\* Lines 697-698 of Handle: the flags are consumed, then --daemon=true is
\* pushed.
NormalizeDaemonMode(subcmd_args) ==
    LET consumed == ConsumeDaemonModeFlag(subcmd_args)
    IN  IF consumed.ok THEN [ok |-> TRUE, args |-> Append(consumed.args, DaemonTrue)]
        ELSE consumed

\* The values given to -daemon= and --daemon=.
DaemonValues ==
    {<<>>, <<"y">>, <<"Y", "e", "s">>, <<"t", "r", "u", "e">>, <<"T", "R", "U", "E">>,
     <<"n">>, <<"n", "o">>, <<"F", "a", "l", "s", "e">>, <<"1">>,
     <<"y", ",", "n">>, <<"-", "-">> \o daemon \o <<"=">>}

\* The arguments of the start requests: the daemon flags in their spellings
\* and an argument that is no daemon flag.
DaemonTokens ==
    {<<"-">> \o daemon, <<"-", "-">> \o daemon,
     <<"-", "n", "o">> \o daemon, <<"-", "-", "n", "o">> \o daemon,
     <<"-", "-">> \o daemon \o <<"s">>, <<"-", "-", "x">>}
    \cup {<<"-", "-">> \o daemon \o <<"=">> \o v : v \in DaemonValues}
    \cup {<<"-">> \o daemon \o <<"=">> \o v : v \in {<<"y">>, <<"n", "o">>}}

(***************************************************************************)
(* ClearSpec: Clear on a backing file that holds any groups, also groups   *)
(* that do not re-validate (the file outlives the server and is not        *)
(* written by it alone), followed by InstanceGroups or IsEmpty.            *)
(***************************************************************************)
ClearInit ==
    /\ data \in [instance_groups : SeqsUpTo(AddArgs, MaxGroups),
                 acloud_translator_optout : BOOLEAN]
    /\ pre = data
    /\ last = NoCall
    /\ arg = NoArg
    /\ ret = <<>>
    /\ addPre = <<>>
    /\ param = NoParam
    /\ HandlersIdle
    /\ StartIdle

\* InstanceGroups (ListGroups) right after a Clear that failed.
InstanceGroupsAfterClear ==
    LET result == InstanceGroups(data)
    IN  /\ last.op = "Clear"
        /\ last.res # "ok"
        /\ last' = [op |-> "InstanceGroupsAfterClear",
                    res |-> IF result.ok THEN "ok" ELSE "Invalid", undo |-> FALSE]
        /\ ret' = result.value
        /\ UNCHANGED <<data, pre, arg, addPre, param, handlerVars, startVars>>

\* IsEmpty right after a Clear that failed.
IsEmptyAfterClear ==
    /\ last.op = "Clear"
    /\ last.res # "ok"
    /\ last' = [op |-> "IsEmptyAfterClear", res |-> "ok", undo |-> FALSE]
    /\ ret' = <<IsEmpty(data)>>
    /\ UNCHANGED <<data, pre, arg, addPre, param, handlerVars, startVars>>

ClearNext == Clear \/ InstanceGroupsAfterClear \/ IsEmptyAfterClear

ClearSpec == ClearInit /\ [][ClearNext]_vars

(***************************************************************************)
(* DaemonSpec: the daemon flags of one argument list are normalized.       *)
(***************************************************************************)
DaemonInit ==
    /\ data = EmptyData
    /\ pre = data
    /\ last = NoCall
    /\ arg \in {<<args>> : args \in SeqsUpTo(DaemonTokens, MaxArgs)}
    /\ ret = <<>>
    /\ addPre = <<>>
    /\ param = NoParam
    /\ HandlersIdle
    /\ StartIdle

NormalizeDaemonModeCall ==
    LET result == NormalizeDaemonMode(arg[1])
    IN  /\ last = NoCall
        /\ last' = [op |-> "NormalizeDaemonMode",
                    res |-> IF result.ok THEN "ok" ELSE "error", undo |-> FALSE]
        /\ ret' = <<result>>
        /\ UNCHANGED <<data, pre, arg, addPre, param, handlerVars, startVars>>

DaemonNext == NormalizeDaemonModeCall

DaemonSpec == DaemonInit /\ [][DaemonNext]_vars

(***************************************************************************)
(* The rewriter of start.cpp: UpdateArgsAndEnvs with                       *)
(* UpdateInstanceArgsAndEnvs.  Arguments and the values of environment     *)
(* variables are sequences of characters.                                  *)
(***************************************************************************)
instance_nums == <<"i", "n", "s", "t", "a", "n", "c", "e", "_", "n", "u", "m", "s">>

num_instances == <<"n", "u", "m", "_", "i", "n", "s", "t", "a", "n", "c", "e", "s">>

base_instance_num == <<"b", "a", "s", "e", "_", "i", "n", "s", "t", "a", "n", "c", "e", "_", "n", "u", "m">>

group_id == <<"g", "r", "o", "u", "p", "_", "i", "d">>

\* Lines 388-391: the flags of the client that the rewriter discards.
instance_id_flags == <<instance_nums, num_instances, base_instance_num>>

decimal == <<"0", "1", "2", "3", "4", "5", "6", "7", "8", "9">>

RECURSIVE to_string(_)
\* std::to_string of an unsigned number.
to_string(n) ==
    IF n < 10 THEN <<decimal[n + 1]>>
    ELSE to_string(n \div 10) \o <<decimal[(n % 10) + 1]>>

RECURSIVE BaseJoin(_, _)
\* android::base::Join(ids, separator).
BaseJoin(ids, separator) ==
    IF Len(ids) = 0 THEN <<>>
    ELSE IF Len(ids) = 1 THEN to_string(ids[1])
    ELSE to_string(ids[1]) \o separator \o BaseJoin(Tail(ids), separator)

\* GflagsCompatFlag(name, value): -name=value and --name=value.
GflagsPrefix(a, name) ==
    \/ StartsWith(a, <<"-">> \o name \o <<"=">>)
    \/ StartsWith(a, <<"-", "-">> \o name \o <<"=">>)

\* GflagsCompatFlag(name, value): -name and --name, which take the argument
\* that follows as their value.
GflagsConsumesFollowing(a, name) ==
    a = <<"-">> \o name \/ a = <<"-", "-">> \o name

\* The argument is one of the flags in one of its spellings.
IsGflag(a, flags) ==
    \E k \in 1..Len(flags) :
        GflagsPrefix(a, flags[k]) \/ GflagsConsumesFollowing(a, flags[k])

RECURSIVE ConsumeGflags(_, _, _)
\* ConsumeFlags(flags, args) from the i-th argument on: an argument that is
\* one of the flags is erased, with the argument that follows it when the
\* flag has no = of its own; such a flag at the end of the list ends the
\* call with an error; any other argument stays.
ConsumeGflags(flags, args, i) ==
    IF i > Len(args) THEN [ok |-> TRUE, args |-> args]
    ELSE IF \E k \in 1..Len(flags) : GflagsPrefix(args[i], flags[k])
    THEN ConsumeGflags(flags,
                       SubSeq(args, 1, i - 1) \o SubSeq(args, i + 1, Len(args)), i)
    ELSE IF \E k \in 1..Len(flags) : GflagsConsumesFollowing(args[i], flags[k])
    THEN IF i = Len(args) THEN [ok |-> FALSE, args |-> args]
         ELSE ConsumeGflags(flags,
                            SubSeq(args, 1, i - 1) \o SubSeq(args, i + 2, Len(args)), i)
    ELSE ConsumeGflags(flags, args, i + 1)

\* envs.emplace(name, value): a variable that is set keeps its value.
EmplaceEnv(envs, name, value) ==
    [n \in DOMAIN envs \cup {name} |->
        IF n \in DOMAIN envs THEN envs[n] ELSE value]

\* envs[name] = value
SetEnv(envs, name, value) ==
    [n \in DOMAIN envs \cup {name} |-> IF n = name THEN value ELSE envs[n]]

RewriteError == [ok |-> FALSE, args |-> <<>>, envs |-> <<>>]

\* std::max_element and std::min_element of the ids.
MaxElement(ids) ==
    CHOOSE m \in {ids[k] : k \in 1..Len(ids)} : \A k \in 1..Len(ids) : ids[k] <= m

MinElement(ids) ==
    CHOOSE m \in {ids[k] : k \in 1..Len(ids)} : \A k \in 1..Len(ids) : m <= ids[k]

\* std::is_sorted(ids.begin(), ids.end())
IsSorted(ids) == \A k \in 1..(Len(ids) - 1) : ids[k] <= ids[k + 1]

\* The ids span as many numbers as there are ids, in whatever order.
UsesOldFlagsUnsorted(ids) ==
    MaxElement(ids) - MinElement(ids) = Len(ids) - 1

\* Lines 406-409: is_consecutive && is_sorted.
UsesOldFlags(ids) ==
    /\ MaxElement(ids) - MinElement(ids) = Len(ids) - 1
    /\ IsSorted(ids)

\* Lines 372-431.  launcher_flags is what host_tool_target_manager_.ReadFlag
\* finds for the start operation of the artifacts.
UpdateInstanceArgsAndEnvs(args, envs, ids, launcher_flags) ==
    LET consumed == ConsumeGflags(instance_id_flags, args, 1)
        new_args == consumed.args
        min == MinElement(ids)
        with_num == IF Len(ids) > 1
                    THEN Append(new_args, <<"-", "-">> \o num_instances \o <<"=">>
                                            \o to_string(Len(ids)))
                    ELSE new_args
        with_base == IF base_instance_num \in launcher_flags
                     THEN Append(with_num, <<"-", "-">> \o base_instance_num
                                             \o <<"=">> \o to_string(min))
                     ELSE with_num
    IN  IF ~consumed.ok THEN RewriteError
        ELSE IF ~UsesOldFlags(ids)
        THEN IF instance_nums \notin launcher_flags THEN RewriteError
             ELSE [ok |-> TRUE,
                   args |-> Append(new_args, <<"-", "-">> \o instance_nums \o <<"=">>
                                               \o BaseJoin(ids, <<",">>)),
                   envs |-> envs]
        ELSE IF Len(ids) > 1 /\ num_instances \notin launcher_flags
        THEN RewriteError
        ELSE [ok |-> TRUE, args |-> with_base,
              envs |-> SetEnv(envs, "CUTTLEFISH_INSTANCE", to_string(min))]

\* Every argument a group_id flag would add.
GroupIdArgs(info, launcher_flags) ==
    IF group_id \in launcher_flags
    THEN <<(<<"-", "-">> \o group_id \o <<"=">> \o info.group_name)>>
    ELSE <<>>

\* Lines 474-512: the result holds the group creation info with the new
\* arguments and environment.
UpdateArgsAndEnvs(info, launcher_flags) ==
    LET updated == UpdateInstanceArgsAndEnvs(info.args, info.envs, info.instances,
                                             launcher_flags)
        envs1 == SetEnv(updated.envs, "HOME", info.home)
        envs2 == SetEnv(envs1, "ANDROID_HOST_OUT", info.host_artifacts_path)
        envs3 == SetEnv(envs2, "ANDROID_PRODUCT_OUT", info.product_out_path)
        envs4 == SetEnv(envs3, "ANDROID_SOONG_HOST_OUT", info.host_artifacts_path)
        envs5 == SetEnv(envs4, "CVD_MARK", <<"t", "r", "u", "e">>)
    IN  IF ~updated.ok THEN [ok |-> FALSE, info |-> info]
        ELSE [ok |-> TRUE,
              info |-> [info EXCEPT
                          !.args = updated.args \o GroupIdArgs(info, launcher_flags),
                          !.envs = envs5]]

(***************************************************************************)
(* RewriteSpec: the rewriter is applied to one group creation info, and    *)
(* then to its own result.                                                 *)
(***************************************************************************)
\* The instance ids of a group creation info: every id once, in any order.
LaunchIds == {1, 2, 3, 10}

IdLists ==
    {ids \in SeqsUpTo(LaunchIds, MaxInstancesPerGroup + 1) :
        /\ Len(ids) > 0
        /\ \A j, k \in 1..Len(ids) : j # k => ids[j] # ids[k]}

\* What a client writes: the instance id flags in their spellings and an
\* argument that is none of them.
RewriteTokens ==
    {<<"-", "-">> \o instance_nums \o <<"=", "7">>,
     <<"-">> \o num_instances,
     <<"-", "-">> \o base_instance_num \o <<"=", "1">>,
     <<"-", "-", "x">>}

\* The flags the launcher of the artifacts may accept.
LauncherFlags == {instance_nums, num_instances, base_instance_num, group_id}

\* The environment of the client: empty, or with the variables the rewriter
\* sets.
ClientEnvs ==
    {<<>>,
     [n \in {"HOME", "ANDROID_HOST_OUT", "ANDROID_SOONG_HOST_OUT",
             "ANDROID_PRODUCT_OUT", "CVD_MARK", "CUTTLEFISH_INSTANCE"} |->
          <<"c">>]}

GroupCreationInfos ==
    [group_name : {<<"g", "1">>}, home : {<<"/", "h", "1">>}, host_artifacts_path : {<<"/", "o">>},
     product_out_path : {<<"/", "p">>}, instances : IdLists,
     args : SeqsUpTo(RewriteTokens, MaxArgs), envs : ClientEnvs]

RewriteInit ==
    /\ data = EmptyData
    /\ pre = data
    /\ last = NoCall
    /\ arg \in {<<info, launcher_flags>> :
                   info \in GroupCreationInfos,
                   launcher_flags \in SUBSET LauncherFlags}
    /\ ret = <<>>
    /\ addPre = <<>>
    /\ param = NoParam
    /\ HandlersIdle
    /\ StartIdle

UpdateArgsAndEnvsCall ==
    LET result == UpdateArgsAndEnvs(arg[1], arg[2])
    IN  /\ last = NoCall
        /\ last' = [op |-> "UpdateArgsAndEnvs",
                    res |-> IF result.ok THEN "ok" ELSE "error", undo |-> FALSE]
        /\ ret' = <<result>>
        /\ UNCHANGED <<data, pre, arg, addPre, param, handlerVars, startVars>>

\* The rewriter applied to the group creation info it returned.
UpdateArgsAndEnvsAgain ==
    /\ last.op = "UpdateArgsAndEnvs"
    /\ last.res = "ok"
    /\ LET result == UpdateArgsAndEnvs(ret[1].info, arg[2])
       IN  /\ last' = [op |-> "UpdateArgsAndEnvsAgain",
                       res |-> IF result.ok THEN "ok" ELSE "error", undo |-> FALSE]
           /\ ret' = <<ret[1], result>>
    /\ UNCHANGED <<data, pre, arg, addPre, param, handlerVars, startVars>>

RewriteNext == UpdateArgsAndEnvsCall \/ UpdateArgsAndEnvsAgain

RewriteSpec == RewriteInit /\ [][RewriteNext]_vars

(***************************************************************************)
(* The signal pipe.  signal_pipe_write_end is one atomic integer; every    *)
(* exchange on it is one step.  InterruptHandler runs once per delivered   *)
(* signal, on any thread and at any moment, also while another run of it   *)
(* or the teardown is under way.                                           *)
(***************************************************************************)
dbVars == <<data, callVars, handlerVars>>

Running == process.state = "running"

\* write(fd, &signal, sizeof(signal)): the signal number goes into the pipe
\* when fd is open for writing; otherwise the call fails (EBADF).
write(fd) ==
    IF fd_table[fd] = "open" /\ OpenForWriting(fd)
    THEN [pipe_bytes EXCEPT ![PipeOf(fd)] = @ + 1]
    ELSE pipe_bytes

\* close(fd).
close(fd) == [fd_table EXCEPT ![fd] = "closed"]

\* The process after a write or a close on fd: using a descriptor that was
\* closed before is recorded.
UsesFd(fd) == [process EXCEPT !.bad_fd = @ \/ fd_table[fd] # "open"]

\* A signal is delivered while InterruptHandler is installed.
SignalDelivered(k) ==
    /\ Running
    /\ signal_handlers = "InterruptHandler"
    /\ interrupt_handler[k].pc = "none"
    /\ \A j \in 1..(k - 1) : interrupt_handler[j].pc # "none"
    /\ interrupt_handler' = [interrupt_handler EXCEPT ![k].pc = "line70"]
    /\ UNCHANGED <<dbVars, signal_pipe_write_end, signal_handlers, fd_table, pipe_bytes,
                   handle, interrupter_thread, child, events, process>>

\* A fault of line 70: the slot is read and left as it is.
LoadInsteadOfExchange(fd) == fd

\* Line 70: the value the handler stores while it uses the descriptor.
ExchangeInUse(fd) == IN_USE_FD

\* Line 70: fd = signal_pipe_write_end.exchange(IN_USE_FD).
InterruptHandler70(k) ==
    LET fd == signal_pipe_write_end
    IN  /\ Running
        /\ interrupt_handler[k].pc = "line70"
        /\ signal_pipe_write_end' = ExchangeInUse(fd)
        /\ interrupt_handler' =
               [interrupt_handler EXCEPT
                   ![k].pc = IF fd >= 0 THEN "line73" ELSE "line75", ![k].fd = fd]
        /\ UNCHANGED <<dbVars, signal_handlers, fd_table, pipe_bytes, handle,
                       interrupter_thread, child, events, process>>

\* Line 73: write(fd, &signal, sizeof(signal)), result ignored.
InterruptHandler73(k) ==
    LET fd == interrupt_handler[k].fd
    IN  /\ Running
        /\ interrupt_handler[k].pc = "line73"
        /\ pipe_bytes' = write(fd)
        /\ process' = UsesFd(fd)
        /\ interrupt_handler' =
               [interrupt_handler EXCEPT
                   ![k].pc = "line75",
                   ![k].wrote = TRUE,
                   \* history: a request was in Wait (line 803) at the write
                   ![k].supervised = \E r \in Requests : handle[r].pc = "line803"]
        /\ UNCHANGED <<dbVars, signal_pipe_write_end, signal_handlers, fd_table, handle,
                       interrupter_thread, child, events>>

\* Lines 75-76: fd = signal_pipe_write_end.exchange(fd); done when the slot
\* still held IN_USE_FD.
InterruptHandler75(k) ==
    LET fd == signal_pipe_write_end
    IN  /\ Running
        /\ interrupt_handler[k].pc = "line75"
        /\ signal_pipe_write_end' = interrupt_handler[k].fd
        /\ interrupt_handler' =
               [interrupt_handler EXCEPT
                   ![k].pc = IF fd # IN_USE_FD THEN "line79" ELSE "returned",
                   ![k].fd = fd]
        /\ UNCHANGED <<dbVars, signal_handlers, fd_table, pipe_bytes, handle,
                       interrupter_thread, child, events, process>>

\* Lines 79-80: fd = signal_pipe_write_end.exchange(CLOSED_FD).
InterruptHandler79(k) ==
    LET fd == signal_pipe_write_end
    IN  /\ Running
        /\ interrupt_handler[k].pc = "line79"
        /\ signal_pipe_write_end' = CLOSED_FD
        /\ interrupt_handler' =
               [interrupt_handler EXCEPT
                   ![k].pc = IF fd >= 0 THEN "line81" ELSE "returned", ![k].fd = fd]
        /\ UNCHANGED <<dbVars, signal_handlers, fd_table, pipe_bytes, handle,
                       interrupter_thread, child, events, process>>

\* Line 81: close(fd).
InterruptHandler81(k) ==
    LET fd == interrupt_handler[k].fd
    IN  /\ Running
        /\ interrupt_handler[k].pc = "line81"
        /\ fd_table' = close(fd)
        /\ process' = UsesFd(fd)
        /\ interrupt_handler' = [interrupt_handler EXCEPT ![k].pc = "returned"]
        /\ UNCHANGED <<dbVars, signal_pipe_write_end, signal_handlers, pipe_bytes, handle,
                       interrupter_thread, child, events>>

\* SubprocessWaiter::Interrupt: the supervised child, if it still runs, is
\* sent the terminate signal and ends by it.
Interrupt(c) ==
    IF c.launcher = "running"
    THEN [c EXCEPT !.launcher = "zombie",
                   !.infop = [si_code |-> "CLD_KILLED", si_status |-> 15]]
    ELSE c

\* Lines 718-733, one turn of the loop of the interrupter thread: read on
\* signals_fd.  The read waits while the pipe is empty and its write end is
\* open; it fails when signals_fd is not open for reading.
InterrupterThread(r) ==
    LET signals_fd == handle[r].signals_fd
        readable == fd_table[signals_fd] = "open" /\ OpenForReading(signals_fd)
        p == PipeOf(signals_fd)
    IN  /\ Running
        /\ interrupter_thread[r] = "line720"
        /\ IF readable /\ pipe_bytes[p] > 0
           THEN \* res > 0
                /\ pipe_bytes' = [pipe_bytes EXCEPT ![p] = @ - 1]
                /\ child' = [child EXCEPT ![r] = Interrupt(@)]
                /\ events' = [events EXCEPT ![r] = Append(@, [name |-> "Interrupt", id |-> 0])]
                /\ UNCHANGED <<fd_table, interrupter_thread>>
           ELSE IF readable
           THEN \* res = 0, once the other end is closed
                /\ fd_table[pipe2(p).fds1] # "open"
                /\ fd_table' = close(signals_fd)
                /\ interrupter_thread' = [interrupter_thread EXCEPT ![r] = "returned"]
                /\ UNCHANGED <<pipe_bytes, child, events>>
           ELSE \* res < 0
                /\ interrupter_thread' = [interrupter_thread EXCEPT ![r] = "returned"]
                /\ UNCHANGED <<fd_table, pipe_bytes, child, events>>
        /\ UNCHANGED <<dbVars, signal_pipe_write_end, signal_handlers, handle,
                       interrupt_handler, process>>

(***************************************************************************)
(* CvdStartCommandHandler::Handle, one start request per request thread.   *)
(* pc names the line the thread is at.  Each step is the code between two  *)
(* points where another thread or a signal handler can see a difference.   *)
(***************************************************************************)
\* The plans GetGroupCreationInfo hands to the requests.
StartPlans ==
    {[name |-> "g1", home_directory |-> "/h1", instances |-> <<[id |-> 1, name |-> "a"]>>],
     [name |-> "g1", home_directory |-> "/h2", instances |-> <<[id |-> 2, name |-> "a"]>>],
     [name |-> "g2", home_directory |-> "/h2",
      instances |-> <<[id |-> 1, name |-> "a"], [id |-> 2, name |-> "b"]>>]}

\* The values of HOME in the environment of a request: not set (<<>>), or
\* set to the empty string, to ~, to ~/x, to /h or to x.
Homes ==
    {<<>>} \cup {<<v>> : v \in {<<>>, <<"~">>, <<"~", "/", "x">>, <<"/", "h">>, <<"x">>}}

\* What lines 638-698 of Handle read from a request.  config_file: its
\* arguments name a config file; precondition: VerifyPrecondition accepts
\* it; path_ok: EmulateAbsolutePath succeeds; host_out: ANDROID_HOST_OUT is
\* absent, or names a directory without or with the start binary; subcmd:
\* the command, which supported_commands_ holds or not; is_help: what
\* IsHelpSubcmd returns.  CanHandle (lines 366-370) returns a Result that
\* always holds a value, so that CF_EXPECT(CanHandle(request)) at line 638
\* ends no request.
StartRequests ==
    [config_file : BOOLEAN, precondition : BOOLEAN,
     HOME : Homes, path_ok : BOOLEAN, host_out : {"absent", "no_start_bin", "ok"},
     subcmd : {"start", "stop"}, is_help : {"no", "yes", "error"},
     subcmd_args : SeqsUpTo(DaemonTokens, 1)]

\* A request that passes lines 638-698.
ValidRequest ==
    [config_file |-> FALSE, precondition |-> TRUE,
     HOME |-> <<>>, path_ok |-> TRUE, host_out |-> "ok", subcmd |-> "start",
     is_help |-> "no", subcmd_args |-> <<>>]

\* A fault of lines 679-681: HOME is not looked at.
TildeHomeAccepted(HOME) == FALSE

\* Lines 662-681: HOME is set, not empty, and starts with ~.
TildeHome(HOME) ==
    /\ HOME # <<>>
    /\ HOME[1] # <<>>
    /\ StartsWith(HOME[1], <<"~">>) \/ StartsWith(HOME[1], <<"~", "/">>)

\* Lines 638-698 of Handle: the path the request takes and, when that ends
\* it, its response.
Validation(req) ==
    IF req.config_file
    THEN [path |-> "config_file", response |-> CommandResponse("OK", "load")]
    ELSE IF ~req.precondition
    THEN [path |-> "precondition",
          response |-> CommandResponse("FAILED_PRECONDITION", "precondition")]
    ELSE IF TildeHome(req.HOME) THEN [path |-> "error", response |-> Error("HOME")]
    ELSE IF req.HOME # <<>> /\ req.HOME[1] # <<>> /\ ~req.path_ok
    THEN [path |-> "error", response |-> Error("EmulateAbsolutePath")]
    ELSE IF req.host_out = "absent"
    THEN [path |-> "error", response |-> Error("ANDROID_HOST_OUT")]
    ELSE IF req.host_out = "no_start_bin"
    THEN [path |-> "error", response |-> Error("FindStartBin")]
    ELSE IF req.subcmd # "start" THEN [path |-> "error", response |-> Error("subcmd")]
    ELSE IF req.is_help = "error"
    THEN [path |-> "error", response |-> Error("IsHelpSubcmd")]
    ELSE IF ~NormalizeDaemonMode(req.subcmd_args).ok
    THEN [path |-> "error", response |-> Error("ConsumeDaemonModeFlag")]
    ELSE [path |-> IF req.is_help = "yes" THEN "help" ELSE "start",
          response |-> NoResult]

Event(name) == [name |-> name, id |-> 0]

\* ResponseFromSiginfo: OK for a child that exited with code 0, INTERNAL
\* with the way the child ended otherwise.
ResponseFromSiginfo(infop) ==
    [CommandResponse(IF infop.si_code = "CLD_EXITED" /\ infop.si_status = 0
                     THEN "OK" ELSE "INTERNAL", "siginfo")
        EXCEPT !.infop = infop]

\* InstanceManager::SetInstanceGroup: the plan is added to the database.
SetInstanceGroup(d, group_creation_info, dirs_ok) ==
    AddInstanceGroupResult(d, group_creation_info, dirs_ok)

\* InstanceManager::RemoveInstanceGroup(dir): the group of that home is
\* looked up and removed from the database by its name.
InstanceManagerRemoveInstanceGroup(d, dir) ==
    LET found == FindGroups(d, [NoParam EXCEPT !.home = {dir}])
    IN  IF Len(found) # 1 THEN Err(d, "NotFound")
        ELSE RemoveInstanceGroupLocked(d, found[1].name)

\* InstanceManager::FindGroup(query): the one group the query selects.
InstanceManagerFindGroup(d, group_name) ==
    LET found == FindGroups(d, [NoParam EXCEPT !.group_name = {group_name}])
    IN  IF Len(found) # 1 THEN Err(d, "NotFound") ELSE Ok(d, found[1])

SetHandle(r, rec) == handle' = [handle EXCEPT ![r] = rec]

Log(r, event) == events' = [events EXCEPT ![r] = Append(@, event)]

\* Lines 638-698: the request is looked at; Handle returns, or goes on to
\* the help command or to the plan.
HandleValidation(r, req) ==
    LET validation == Validation(req)
    IN  /\ Running
        /\ handle[r].pc = "idle"
        /\ SetHandle(r, [handle[r] EXCEPT
               !.pc = IF validation.path \in {"help", "start"} THEN "line700"
                      ELSE "returned",
               !.path = validation.path,
               !.request = <<req>>,
               !.before = data,
               !.response = validation.response])
        /\ UNCHANGED <<dbVars, signal_pipe_write_end, signal_handlers, fd_table,
                       pipe_bytes, interrupter_thread, interrupt_handler, child,
                       events, process>>

\* Lines 700-705: the help command is started and handed to the waiter.
\* setup_ok: the waiter took it; otherwise CF_EXPECT ends the request.
HandleHelp(r, setup_ok) ==
    /\ Running
    /\ handle[r].pc = "line700"
    /\ handle[r].path = "help"
    /\ child' = [child EXCEPT ![r].launcher = "running"]
    /\ IF setup_ok
       THEN /\ SetHandle(r, [handle[r] EXCEPT !.pc = "line706"])
            /\ Log(r, Event("Setup"))
       ELSE /\ SetHandle(r, [handle[r] EXCEPT
                   !.pc = "returned", !.response = Error("Setup")])
            /\ UNCHANGED events
    /\ UNCHANGED <<dbVars, signal_pipe_write_end, signal_handlers, fd_table, pipe_bytes,
                   interrupter_thread, interrupt_handler, process>>

\* A fault of lines 706-707: the response is OK however the command ended.
HandleHelpWaitAnswersOK(r) ==
    /\ Running
    /\ handle[r].pc = "line706"
    /\ child[r].launcher = "zombie"
    /\ child' = [child EXCEPT ![r].launcher = "reaped"]
    /\ SetHandle(r, [handle[r] EXCEPT
           !.pc = "returned", !.response = CommandResponse("OK", "siginfo")])
    /\ Log(r, Event("Wait"))
    /\ UNCHANGED <<dbVars, signal_pipe_write_end, signal_handlers, fd_table, pipe_bytes,
                   interrupter_thread, interrupt_handler, process>>

\* Lines 706-707: the help command has ended.
HandleHelpWait(r) ==
    /\ Running
    /\ handle[r].pc = "line706"
    /\ child[r].launcher = "zombie"
    /\ child' = [child EXCEPT ![r].launcher = "reaped"]
    /\ SetHandle(r, [handle[r] EXCEPT
           !.pc = "returned", !.response = ResponseFromSiginfo(child[r].infop)])
    /\ Log(r, Event("Wait"))
    /\ UNCHANGED <<dbVars, signal_pipe_write_end, signal_handlers, fd_table, pipe_bytes,
                   interrupter_thread, interrupt_handler, process>>

\* Lines 710-713: the plan of the request, which is the default group or is
\* not.
GetGroupCreationInfo(r, group_creation_info, is_default_group) ==
    /\ Running
    /\ handle[r].pc = "line700"
    /\ handle[r].path = "start"
    /\ SetHandle(r, [handle[r] EXCEPT
           !.pc = "line716", !.group_creation_info = group_creation_info,
           !.is_default_group = is_default_group])
    /\ UNCHANGED <<dbVars, signal_pipe_write_end, signal_handlers, fd_table, pipe_bytes,
                   interrupter_thread, interrupt_handler, child, events, process>>

\* Lines 710-713: no plan or no launch command is made, and CF_EXPECT ends
\* the request.
GetGroupCreationInfoFails(r) ==
    /\ Running
    /\ handle[r].pc = "line700"
    /\ handle[r].path = "start"
    /\ SetHandle(r, [handle[r] EXCEPT
           !.pc = "returned", !.response = Error("GetGroupCreationInfo")])
    /\ UNCHANGED <<dbVars, signal_pipe_write_end, signal_handlers, fd_table, pipe_bytes,
                   interrupter_thread, interrupt_handler, child, events, process>>

\* Line 88: pipe2 fails and with it the request.
HandleInterruptSignalsFails(r) ==
    /\ Running
    /\ handle[r].pc = "line716"
    /\ SetHandle(r, [handle[r] EXCEPT !.pc = "returned", !.response = Error("pipe2")])
    /\ UNCHANGED <<dbVars, signal_pipe_write_end, signal_handlers, fd_table, pipe_bytes,
                   interrupter_thread, interrupt_handler, child, events, process>>

\* Line 95: the descriptor HandleInterruptSignals stores in the slot.
StoredInSlot(fds) == fds.fds0

\* Line 99: the descriptor HandleInterruptSignals returns.
ReturnedToHandle(fds) == fds.fds1

\* Lines 87-96: the pipe is created and one end stored in the slot; the
\* CHECK ends the process when the slot did not hold CLOSED_FD.
HandleInterruptSignals(r) ==
    LET fds == pipe2(r)
        previous_value == signal_pipe_write_end
    IN  /\ Running
        /\ handle[r].pc = "line716"
        /\ fd_table' = [fd_table EXCEPT ![fds.fds0] = "open", ![fds.fds1] = "open"]
        /\ signal_pipe_write_end' = StoredInSlot(fds)
        /\ process' = [process EXCEPT
               !.state = IF previous_value = CLOSED_FD THEN "running" ELSE "aborted"]
        /\ SetHandle(r, [handle[r] EXCEPT
               !.pc = "line98", !.signals_fd = ReturnedToHandle(fds)])
        /\ Log(r, Event("exchange"))
        /\ UNCHANGED <<dbVars, signal_handlers, pipe_bytes, interrupter_thread,
                       interrupt_handler, child>>

\* Lines 98-99 and 717: the handlers are installed and the interrupter
\* thread is started.
ChangeSignalHandlers(r) ==
    /\ Running
    /\ handle[r].pc = "line98"
    /\ signal_handlers' = "InterruptHandler"
    /\ interrupter_thread' = [interrupter_thread EXCEPT ![r] = "line720"]
    /\ SetHandle(r, [handle[r] EXCEPT !.pc = "line819"])
    /\ Log(r, Event("HandleInterruptSignals"))
    /\ UNCHANGED <<dbVars, signal_pipe_write_end, fd_table, pipe_bytes,
                   interrupt_handler, child, process>>

\* A fault of AfterLaunch: an error of the launch ends Handle at once.
ReturnOnLaunchError(launch_res) == IF launch_res.ok THEN "line737" ELSE "returned"

\* Lines 735-737: where Handle goes on with the result of
\* LaunchDeviceInterruptible, whatever it is.
AfterLaunch(launch_res) == "line737"

\* A fault of UpdateInstanceDatabase: its failure goes on to the rollback of
\* line 822.
UpdateInstanceDatabaseRollsBack(r, dirs_ok) ==
    LET result == SetInstanceGroup(data, handle[r].group_creation_info, dirs_ok)
    IN  /\ Running
        /\ handle[r].pc = "line819"
        /\ data' = WithExclusiveLock(data, result)
        /\ IF result.ok
           THEN /\ SetHandle(r, [handle[r] EXCEPT !.pc = "line789"])
                /\ Log(r, Event("SetInstanceGroup"))
           ELSE /\ SetHandle(r, [handle[r] EXCEPT
                       !.pc = "line822",
                       !.launch_res = Error(result.error),
                       !.response = Error(result.error)])
                /\ UNCHANGED events
        /\ UNCHANGED <<callVars, handlerVars, signal_pipe_write_end, signal_handlers,
                       fd_table, pipe_bytes, interrupter_thread, interrupt_handler,
                       child, process>>

\* Lines 819 and 869-875: UpdateInstanceDatabase; its failure is the result
\* of LaunchDeviceInterruptible.
UpdateInstanceDatabase(r, dirs_ok) ==
    LET result == SetInstanceGroup(data, handle[r].group_creation_info, dirs_ok)
    IN  /\ Running
        /\ handle[r].pc = "line819"
        /\ data' = WithExclusiveLock(data, result)
        /\ IF result.ok
           THEN /\ SetHandle(r, [handle[r] EXCEPT !.pc = "line789"])
                /\ Log(r, Event("SetInstanceGroup"))
           ELSE /\ SetHandle(r, [handle[r] EXCEPT
                       !.pc = AfterLaunch(Error(result.error)),
                       !.launch_res = Error(result.error),
                       !.response = Error(result.error)])
                /\ UNCHANGED events
        /\ UNCHANGED <<callVars, handlerVars, signal_pipe_write_end, signal_handlers,
                       fd_table, pipe_bytes, interrupter_thread, interrupt_handler,
                       child, process>>

\* The child is started and set up whether the group is registered or not.
LaunchDeviceUnregistered(r, wait_behavior_ok, started, setup_ok, acloud_ok) ==
    /\ Running
    /\ handle[r].pc \in {"line819", "line789"}
    /\ wait_behavior_ok /\ started /\ setup_ok
    /\ child' = [child EXCEPT ![r].launcher = "running"]
    /\ SetHandle(r, [handle[r] EXCEPT !.pc = "line803"])
    /\ Log(r, Event("Setup"))
    /\ UNCHANGED <<dbVars, signal_pipe_write_end, signal_handlers, fd_table, pipe_bytes,
                   interrupter_thread, interrupt_handler, process>>

\* AcloudCompatActions ends the request when it fails.
LaunchDeviceAcloudFatal(r, wait_behavior_ok, started, setup_ok, acloud_ok) ==
    /\ Running
    /\ handle[r].pc = "line789"
    /\ wait_behavior_ok /\ started /\ setup_ok
    /\ child' = [child EXCEPT ![r].launcher = "running"]
    /\ SetHandle(r, [handle[r] EXCEPT
           !.pc = IF acloud_ok THEN "line803" ELSE "line822",
           !.launch_res = IF acloud_ok THEN @ ELSE Error("AcloudCompatActions")])
    /\ events' = [events EXCEPT ![r] =
           @ \o <<Event("Setup"),
                  Event(IF acloud_ok THEN "AcloudCompatActions"
                        ELSE "AcloudCompatActionsFailed")>>]
    /\ UNCHANGED <<dbVars, signal_pipe_write_end, signal_handlers, fd_table, pipe_bytes,
                   interrupter_thread, interrupt_handler, process>>

\* Lines 789-801 of LaunchDevice.  started: launch_command.Start() made a
\* child; setup_ok: the waiter took it; acloud_ok: AcloudCompatActions
\* succeeded, and its failure is logged and nothing else.  A rejected wait
\* behavior ends LaunchDevice before the child is started.
LaunchDevice(r, wait_behavior_ok, started, setup_ok, acloud_ok) ==
    /\ Running
    /\ handle[r].pc = "line789"
    /\ IF ~wait_behavior_ok
       THEN /\ SetHandle(r, [handle[r] EXCEPT
                   !.pc = "line822", !.launch_res = Error("wait_behavior")])
            /\ UNCHANGED <<child, events>>
       ELSE /\ child' = [child EXCEPT ![r].launcher = IF started THEN "running" ELSE @]
            /\ IF started /\ setup_ok
               THEN /\ SetHandle(r, [handle[r] EXCEPT !.pc = "line803"])
                    /\ events' = [events EXCEPT ![r] =
                           @ \o <<Event("Setup"),
                                  Event(IF acloud_ok THEN "AcloudCompatActions"
                                        ELSE "AcloudCompatActionsFailed")>>]
               ELSE /\ SetHandle(r, [handle[r] EXCEPT
                           !.pc = "line822", !.launch_res = Error("Setup")])
                    /\ UNCHANGED events
    /\ UNCHANGED <<dbVars, signal_pipe_write_end, signal_handlers, fd_table, pipe_bytes,
                   interrupter_thread, interrupt_handler, process>>

\* The launcher child starts the run_cvd processes of the devices.
ChildStartsRunCvd(r) ==
    /\ Running
    /\ handle[r].path = "start"
    /\ child[r].launcher = "running"
    /\ ~child[r].run_cvd
    /\ child' = [child EXCEPT ![r].run_cvd = TRUE]
    /\ UNCHANGED <<dbVars, signal_pipe_write_end, signal_handlers, fd_table, pipe_bytes,
                   handle, interrupter_thread, interrupt_handler, events, process>>

\* The ways a child ends by itself or by a signal from outside the server.
ChildEnds ==
    {[si_code |-> "CLD_EXITED", si_status |-> 0],
     [si_code |-> "CLD_EXITED", si_status |-> 1],
     [si_code |-> "CLD_KILLED", si_status |-> 9]}

\* The child ends; its run_cvd processes go on.
ChildExits(r, infop) ==
    /\ Running
    /\ child[r].launcher = "running"
    /\ child' = [child EXCEPT ![r].launcher = "zombie", ![r].infop = infop]
    /\ UNCHANGED <<dbVars, signal_pipe_write_end, signal_handlers, fd_table, pipe_bytes,
                   handle, interrupter_thread, interrupt_handler, events, process>>

\* Lines 803-804 and 813: Wait returns once the child has ended; a child
\* that exited with code 0 makes the response of LaunchDevice.
Wait(r) ==
    LET infop == child[r].infop
        failed == infop.si_code # "CLD_EXITED" \/ infop.si_status # 0
    IN  /\ Running
        /\ handle[r].pc = "line803"
        /\ child[r].launcher = "zombie"
        /\ child' = [child EXCEPT ![r].launcher = "reaped"]
        /\ SetHandle(r, [handle[r] EXCEPT
               !.pc = IF failed THEN "line808" ELSE "line822",
               !.launch_res = ResponseFromSiginfo(infop)])
        /\ Log(r, Event("Wait"))
        /\ UNCHANGED <<dbVars, signal_pipe_write_end, signal_handlers, fd_table,
                       pipe_bytes, interrupter_thread, interrupt_handler, process>>

\* The ways CvdResetGroup goes: the process collector is not obtained, the
\* stop of the group fails, or the group's processes are stopped.
ResetOutcomes == {"collector_fails", "stop_fails", "stopped"}

\* Lines 773-777: the instance whose id ForcefullyStopGroup is given.
FirstInstance(group_creation_info) == group_creation_info.instances[1]

\* Lines 808-811 and 765-782: CvdResetGroup after the child failed.  A
\* response of it that is not OK replaces the one made from the siginfo.
CvdResetGroup(r, outcome) ==
    LET id == FirstInstance(handle[r].group_creation_info).id
    IN  /\ Running
        /\ handle[r].pc = "line808"
        /\ SetHandle(r, [handle[r] EXCEPT
               !.pc = "line822",
               !.launch_res =
                   CASE outcome = "collector_fails" ->
                            CommandResponse("INTERNAL", "kCollectorFailure")
                     [] outcome = "stop_fails" ->
                            CommandResponse("INTERNAL", "kStopFailure")
                     [] OTHER -> @])
        /\ child' = [child EXCEPT ![r].run_cvd = IF outcome = "stopped" THEN FALSE ELSE @]
        /\ events' = [events EXCEPT ![r] =
               IF outcome = "collector_fails"
               THEN @ \o <<Event("CvdResetGroup"), Event("kCollectorFailure")>>
               ELSE @ \o <<Event("CvdResetGroup"),
                            [name |-> "ForcefullyStopGroup", id |-> id]>>
                      \o IF outcome = "stop_fails" THEN <<Event("kStopFailure")>>
                         ELSE <<>>]
        /\ UNCHANGED <<dbVars, signal_pipe_write_end, signal_handlers, fd_table,
                       pipe_bytes, interrupter_thread, interrupt_handler, process>>

\* Lines 833-847: on the default group the symlinks are made, then the lock
\* files are marked; a failure of either is logged and nothing else.
PostLaunch(r, symlink_ok, marked_ok) ==
    (IF handle[r].is_default_group
     THEN <<Event(IF symlink_ok THEN "CreateSymlinks" ELSE "CreateSymlinksFailed")>>
     ELSE <<>>)
    \o <<Event(IF marked_ok THEN "MarkLockfilesInUse" ELSE "MarkLockfilesInUseFailed")>>

\* Lines 822-849: after LaunchDevice.  A result that is an error or a
\* response that is not OK takes the group out of the database; otherwise
\* the symlinks are made and the lock files are marked.
LaunchDeviceInterruptible(r, symlink_ok, marked_ok) ==
    LET start_res == handle[r].launch_res
        result == InstanceManagerRemoveInstanceGroup(
                      data, handle[r].group_creation_info.home_directory)
        launch_res == IF result.ok THEN start_res ELSE Error("RemoveInstanceGroup")
    IN  /\ Running
        /\ handle[r].pc = "line822"
        /\ IF ~start_res.ok \/ start_res.code # "OK"
           THEN /\ data' = WithExclusiveLock(data, result)
                /\ SetHandle(r, [handle[r] EXCEPT
                       !.pc = AfterLaunch(launch_res),
                       !.launch_res = launch_res,
                       !.response = launch_res])
                /\ Log(r, Event("RemoveInstanceGroup"))
           ELSE /\ SetHandle(r, [handle[r] EXCEPT !.pc = AfterLaunch(start_res)])
                /\ events' = [events EXCEPT ![r] = @ \o PostLaunch(r, symlink_ok, marked_ok)]
                /\ UNCHANGED data
        /\ UNCHANGED <<callVars, handlerVars, signal_pipe_write_end, signal_handlers,
                       fd_table, pipe_bytes, interrupter_thread, interrupt_handler,
                       child, process>>

\* Line 103: the default handlers are put back.
StopHandlingInterruptSignals103(r) ==
    /\ Running
    /\ handle[r].pc = "line737"
    /\ signal_handlers' = "SIG_DFL"
    /\ SetHandle(r, [handle[r] EXCEPT !.pc = "line104"])
    /\ UNCHANGED <<dbVars, signal_pipe_write_end, fd_table, pipe_bytes,
                   interrupter_thread, interrupt_handler, child, events, process>>

\* Lines 104-105: fd = signal_pipe_write_end.exchange(CLOSED_FD).
StopHandlingInterruptSignals104(r) ==
    LET fd == signal_pipe_write_end
    IN  /\ Running
        /\ handle[r].pc = "line104"
        /\ signal_pipe_write_end' = CLOSED_FD
        /\ SetHandle(r, [handle[r] EXCEPT
               !.pc = IF fd >= 0 THEN "line106" ELSE "line738", !.fd = fd])
        /\ Log(r, Event("StopHandlingInterruptSignals"))
        /\ UNCHANGED <<dbVars, signal_handlers, fd_table, pipe_bytes,
                       interrupter_thread, interrupt_handler, child, process>>

\* Line 106: close(fd).
StopHandlingInterruptSignals106(r) ==
    LET fd == handle[r].fd
    IN  /\ Running
        /\ handle[r].pc = "line106"
        /\ fd_table' = close(fd)
        /\ process' = UsesFd(fd)
        /\ SetHandle(r, [handle[r] EXCEPT !.pc = "line738"])
        /\ UNCHANGED <<dbVars, signal_pipe_write_end, signal_handlers, pipe_bytes,
                       interrupter_thread, interrupt_handler, child, events>>

\* Line 738: interrupter_thread.join() returns once the thread has ended.
Join(r) ==
    /\ Running
    /\ handle[r].pc = "line738"
    /\ interrupter_thread[r] = "returned"
    /\ interrupter_thread' = [interrupter_thread EXCEPT ![r] = "joined"]
    /\ SetHandle(r, [handle[r] EXCEPT !.pc = "line739"])
    /\ UNCHANGED <<dbVars, signal_pipe_write_end, signal_handlers, fd_table, pipe_bytes,
                   interrupt_handler, child, events, process>>

\* Lines 852-867: the response with the group's name, home and instances.
FillOutNewInstanceInfo(response, group_creation_info) ==
    [response EXCEPT !.info = <<group_creation_info>>]

\* Lines 739-749: an error of the launch is the error of Handle; otherwise
\* the group is looked up by its name, its status is sent to the client
\* and the response is returned with the group's info.
HandleReturns(r) ==
    LET launch_res == handle[r].launch_res
        group == InstanceManagerFindGroup(data, handle[r].group_creation_info.name)
    IN  /\ Running
        /\ handle[r].pc = "line739"
        /\ SetHandle(r, [handle[r] EXCEPT
               !.pc = "returned",
               !.response =
                   IF ~launch_res.ok THEN launch_res
                   ELSE IF ~group.ok THEN Error("FindGroup")
                   ELSE FillOutNewInstanceInfo(launch_res, handle[r].group_creation_info)])
        /\ UNCHANGED <<dbVars, signal_pipe_write_end, signal_handlers, fd_table,
                       pipe_bytes, interrupter_thread, interrupt_handler, child, events,
                       process>>

(***************************************************************************)
(* StartSpec: the server handles one start request, on a database that is  *)
(* empty or holds one group, while signals are delivered to the process.   *)
(* ParallelStartSpec: it handles two start requests on request threads of  *)
(* their own.                                                              *)
(***************************************************************************)
StartRegistries ==
    {EmptyData,
     [EmptyData EXCEPT !.instance_groups =
         <<[name |-> "g1", home_directory |-> "/h1",
            instances |-> <<[id |-> 1, name |-> "a"]>>]>>]}

StartInit ==
    /\ data \in StartRegistries
    /\ pre = data
    /\ last = NoCall
    /\ arg = NoArg
    /\ ret = <<>>
    /\ addPre = <<>>
    /\ param = NoParam
    /\ HandlersIdle
    /\ StartIdle

\* The steps of the request thread of r that end a request without a plan.
HandleWithoutPlan(r, Reqs) ==
    \/ handle[r].pc = "idle" /\ \E req \in Reqs : HandleValidation(r, req)
    \/ \E setup_ok \in BOOLEAN : HandleHelp(r, setup_ok)
    \/ HandleHelpWait(r)

\* The steps of the request thread of r from its plan on.  Plans are the
\* plans it may get, Flags the outcomes (TRUE: success) of the calls that
\* can fail around the launch, Outcomes the ways CvdResetGroup may go,
\* Defaults whether the plan is the default group, BestEffort the outcomes
\* of the calls whose failure is only logged.
HandleStart(r, Plans, Flags, Outcomes, Defaults, BestEffort) ==
    \/ \E group_creation_info \in Plans, is_default_group \in Defaults :
           GetGroupCreationInfo(r, group_creation_info, is_default_group)
    \/ GetGroupCreationInfoFails(r)
    \/ HandleInterruptSignalsFails(r)
    \/ HandleInterruptSignals(r)
    \/ ChangeSignalHandlers(r)
    \/ \E dirs_ok \in Flags : UpdateInstanceDatabase(r, dirs_ok)
    \/ \E wait_behavior_ok, started, setup_ok \in Flags, acloud_ok \in BestEffort :
           LaunchDevice(r, wait_behavior_ok, started, setup_ok, acloud_ok)
    \/ Wait(r)
    \/ \E outcome \in Outcomes : CvdResetGroup(r, outcome)
    \/ \E symlink_ok, marked_ok \in BestEffort :
           LaunchDeviceInterruptible(r, symlink_ok, marked_ok)
    \/ StopHandlingInterruptSignals103(r)
    \/ StopHandlingInterruptSignals104(r)
    \/ StopHandlingInterruptSignals106(r)
    \/ Join(r)
    \/ HandleReturns(r)

\* The requests of StartSpec: one that starts devices, one that asks for
\* help, and one for each way lines 638-698 end a request.
StartSpecRequests ==
    {ValidRequest,
     [ValidRequest EXCEPT !.is_help = "yes"],
     [ValidRequest EXCEPT !.config_file = TRUE],
     [ValidRequest EXCEPT !.precondition = FALSE],
     [ValidRequest EXCEPT !.HOME = <<(<<"~", "/", "x">>)>>]}

\* The steps of the request thread of r.
HandleStep(r) ==
    \/ HandleWithoutPlan(r, StartSpecRequests)
    \/ HandleStart(r, StartPlans, BOOLEAN, ResetOutcomes, {FALSE}, {TRUE})

\* The steps of the child of r.
ChildStep(r) ==
    \/ ChildStartsRunCvd(r)
    \/ \E infop \in ChildEnds : ChildExits(r, infop)

\* The steps of the k-th run of InterruptHandler.
InterruptHandler(k) ==
    \/ InterruptHandler70(k)
    \/ InterruptHandler73(k)
    \/ InterruptHandler75(k)
    \/ InterruptHandler79(k)
    \/ InterruptHandler81(k)

StartNext ==
    \/ HandleStep("r1")
    \/ InterrupterThread("r1")
    \/ ChildStep("r1")
    \/ \E k \in Deliveries : SignalDelivered(k)
    \/ \E k \in Deliveries : InterruptHandler(k)

StartSpec == StartInit /\ [][StartNext]_vars

\* Two start requests with plans that do not collide, on the empty
\* database; every call around the launch succeeds and the child exits
\* with code 0 or 1.
ParallelPlan(r) ==
    CHOOSE g \in StartPlans :
        /\ Len(g.instances) = 1
        /\ g.home_directory = IF r = "r1" THEN "/h1" ELSE "/h2"

ParallelStartInit == StartInit /\ data = EmptyData

ParallelStartNext ==
    \/ \E r \in Requests : HandleValidation(r, ValidRequest)
    \/ \E r \in Requests : HandleStart(r, {ParallelPlan(r)}, {TRUE}, {"stopped"}, {FALSE}, {TRUE})
    \/ \E r \in Requests : InterrupterThread(r)
    \/ \E r \in Requests, infop \in ChildEnds :
           infop.si_code = "CLD_EXITED" /\ ChildExits(r, infop)
    \/ \E k \in Deliveries : SignalDelivered(k)
    \/ \E k \in Deliveries : InterruptHandler(k)

ParallelStartSpec == ParallelStartInit /\ [][ParallelStartNext]_vars

(***************************************************************************)
(* ValidationSpec: one start request, any request of StartRequests, with   *)
(* one plan and no failure around the launch, and no signal.               *)
(***************************************************************************)
ValidationNext ==
    \/ HandleWithoutPlan("r1", StartRequests)
    \/ HandleStart("r1", {ParallelPlan("r1")}, {TRUE}, {"stopped"}, {FALSE}, {TRUE})
    \/ InterrupterThread("r1")
    \/ ChildStep("r1")

ValidationSpec == StartInit /\ [][ValidationNext]_vars

\* One request without signals: every plan, default group or not, every
\* outcome of the calls around the launch and of the calls whose failure is
\* only logged.
PostLaunchNext ==
    \/ HandleWithoutPlan("r1", {ValidRequest, [ValidRequest EXCEPT !.is_help = "yes"]})
    \/ HandleStart("r1", StartPlans, BOOLEAN, ResetOutcomes, BOOLEAN, BOOLEAN)
    \/ InterrupterThread("r1")
    \/ ChildStep("r1")

PostLaunchSpec == StartInit /\ [][PostLaunchNext]_vars

(***************************************************************************)
(* Vocabulary of the claims, stated on the stored data itself.             *)
(***************************************************************************)
\* The ids of the instances of a group.
IdsOf(group) == {group.instances[k].id : k \in 1..Len(group.instances)}

\* A stored group of d has the name and the home directory of g.
SamePair(d, g) ==
    \E i \in 1..Len(d.instance_groups) :
        /\ d.instance_groups[i].name = g.name
        /\ d.instance_groups[i].home_directory = g.home_directory

\* A stored group of d has the home directory of g.
SameHome(d, g) ==
    \E i \in 1..Len(d.instance_groups) :
        d.instance_groups[i].home_directory = g.home_directory

\* A stored instance of d has the id of an instance of g.
SharesId(d, g) ==
    \E i \in 1..Len(d.instance_groups) : IdsOf(d.instance_groups[i]) \cap IdsOf(g) # {}

\* The last call was AddInstanceGroup and its argument passed the
\* validation that precedes the lock.
AddValidated ==
    /\ last.op = "AddInstanceGroup"
    /\ IsValidGroupName(arg.group_proto.name)
    /\ arg.dirs_ok

(***************************************************************************)
(* C1.  R1: in every reachable registry state no two distinct stored       *)
(* groups have the same (group name, home directory) pair.                 *)
(* Violated: LoadFromJson appends the imported groups without any check.   *)
(***************************************************************************)
C1_UniqueNameHomePairs ==
    \A i, j \in 1..Len(groups) :
        i # j => \/ groups[i].name # groups[j].name
                 \/ groups[i].home_directory # groups[j].home_directory

(***************************************************************************)
(* C2.  R2: in every reachable registry state no two distinct stored       *)
(* instances, of the same group or of different groups, share an id.       *)
(* Violated: LoadFromJson appends the imported groups without any check.   *)
(***************************************************************************)
C2_UniqueInstanceIds ==
    \A i, j \in 1..Len(groups) :
        \A k \in 1..Len(groups[i].instances), l \in 1..Len(groups[j].instances) :
            (i # j \/ k # l) => groups[i].instances[k].id # groups[j].instances[l].id

(***************************************************************************)
(* C3.  LoadFromJson never replaces stored groups; when a group of the     *)
(* imported document has the (name, home) pair of a stored group or the id *)
(* of a stored instance the call fails and the registry is unchanged; a    *)
(* document without such a conflict is appended after the stored groups.   *)
(* Violated: a conflicting document is appended and the call succeeds.     *)
(***************************************************************************)
C3_LoadFromJsonFailsOnConflict ==
    (last.op = "LoadFromJson" /\ arg.isMember /\ arg.isArray
        /\ \A i \in 1..Len(arg.group_array) : arg.group_array[i].parses)
    => LET new_groups == Deserialize(arg.group_array)
           conflict == \E i \in 1..Len(new_groups) :
                           SamePair(pre, new_groups[i]) \/ SharesId(pre, new_groups[i])
       IN  /\ SubSeq(groups, 1, Len(pre.instance_groups)) = pre.instance_groups
           /\ conflict => last.res # "ok" /\ data = pre
           /\ ~conflict => last.res = "ok"
                           /\ groups = pre.instance_groups \o new_groups

(***************************************************************************)
(* C4.  AddInstanceGroup of a group that has the (name, home) pair of a    *)
(* stored group, or an instance with the id of a stored instance, fails    *)
(* and leaves the registry (groups and optout flag) exactly as it was; the *)
(* failure is the conflict whenever the group passed the validation that   *)
(* precedes the lock.                                                      *)
(***************************************************************************)
C4_AddConflictLeavesRegistry ==
    (last.op = "AddInstanceGroup"
        /\ (SamePair(pre, arg.group_proto) \/ SharesId(pre, arg.group_proto)))
    => /\ last.res \in {"Conflict", "Invalid"}
       /\ AddValidated => last.res = "Conflict"
       /\ data = pre

\* Scenario "conflict on id": another name, another home, a stored id; the
\* flag is set, and the colliding instance is not the first of the group.
C4_Witness ==
    /\ AddValidated
    /\ last.res = "Conflict"
    /\ ~SameHome(pre, arg.group_proto)
    /\ SharesId(pre, arg.group_proto)
    /\ \A i \in 1..Len(pre.instance_groups) :
           arg.group_proto.instances[1].id \notin IdsOf(pre.instance_groups[i])
    /\ pre.acloud_translator_optout
    /\ data = pre

(***************************************************************************)
(* C5.  Scenario "conflict on home": AddInstanceGroup of a valid group     *)
(* whose home directory is the home of a stored group with another name,   *)
(* and whose ids collide with no stored instance, fails with the conflict  *)
(* and leaves the registry unchanged.                                      *)
(* Violated: the group is appended; two groups then share the home.        *)
(***************************************************************************)
C5_AddSameHomeConflicts ==
    (AddValidated
        /\ SameHome(pre, arg.group_proto)
        /\ ~SamePair(pre, arg.group_proto)
        /\ ~SharesId(pre, arg.group_proto))
    => last.res = "Conflict" /\ data = pre

(***************************************************************************)
(* C6.  When two request handlers call AddInstanceGroup concurrently with  *)
(* groups that collide with each other (same (name, home) pair, or a       *)
(* shared instance id), in every interleaving at most one call succeeds,   *)
(* and when one succeeded the other, having passed the validation, returns *)
(* the conflict.                                                           *)
(***************************************************************************)
\* The groups of the two handlers' calls collide with each other.
Collide(g1, g2) ==
    \/ g1.name = g2.name /\ g1.home_directory = g2.home_directory
    \/ IdsOf(g1) \cap IdsOf(g2) # {}

C6_CollidingAddsOneWinner ==
    \A h1, h2 \in Handlers :
        (h1 # h2 /\ hpc[h1] = "done" /\ hpc[h2] = "done"
            /\ Collide(harg[h1].group_proto, harg[h2].group_proto)
            /\ hres[h1] = "ok")
        => /\ hres[h2] \in {"Conflict", "Invalid"}
           /\ hres[h2] = "Invalid"
                  => ~AddInstanceGroupResult(EmptyData, harg[h2].group_proto,
                                             harg[h2].dirs_ok).ok
           /\ groups = <<harg[h1].group_proto>>

\* The second call began while the first held the lock; their groups share
\* an id only; the first call succeeded and the second returned the
\* conflict.
C6_Witness ==
    \E h1, h2 \in Handlers :
        /\ h1 # h2 /\ hpc[h1] = "done" /\ hpc[h2] = "done"
        /\ harg[h2].lock_at_call = h1
        /\ harg[h1].group_proto.name # harg[h2].group_proto.name
        /\ harg[h1].group_proto.home_directory # harg[h2].group_proto.home_directory
        /\ Collide(harg[h1].group_proto, harg[h2].group_proto)
        /\ hres[h1] = "ok" /\ hres[h2] = "Conflict"
        /\ groups = <<harg[h1].group_proto>>

(***************************************************************************)
(* C7.  P3: a successful AddInstanceGroup directly followed by             *)
(* RemoveInstanceGroup of the added group's name leaves the registry as it *)
(* was before the AddInstanceGroup.                                        *)
(* Violated: with a stored group of the same name under another home, the  *)
(* stored group is erased and the added one stays.                         *)
(***************************************************************************)
C7_AddThenRemoveRestores ==
    (last.op = "RemoveInstanceGroup" /\ last.undo) => data = addPre[1]

(***************************************************************************)
(* C8.  P4: a successful Clear returns exactly the groups, in order, that  *)
(* InstanceGroups (ListGroups) yields for the data the lock was taken on;  *)
(* afterwards IsEmpty holds and InstanceGroups yields the empty list; the  *)
(* optout flag is not changed.                                             *)
(***************************************************************************)
C8_ClearReturnsAllAndEmpties ==
    (last.op = "Clear" /\ last.res = "ok")
    => /\ InstanceGroups(pre).ok
       /\ ret = InstanceGroups(pre).value
       /\ ret = pre.instance_groups
       /\ IsEmpty(data)
       /\ InstanceGroups(data) = [ok |-> TRUE, value |-> <<>>]
       /\ data.acloud_translator_optout = pre.acloud_translator_optout

\* Clear of two stored groups with the flag set.
C8_Witness ==
    /\ last.op = "Clear"
    /\ last.res = "ok"
    /\ Len(ret) = MaxGroups
    /\ ret[1] # ret[2]
    /\ pre.acloud_translator_optout
    /\ data.acloud_translator_optout
    /\ IsEmpty(data)

(***************************************************************************)
(* The semantics of a filter, stated per group and per instance.           *)
(***************************************************************************)
\* Every set field of p matches the group: home and group name on the
\* group, id and instance name each on at least one of its instances.
GroupMatches(p, group) ==
    /\ p.home = {} \/ group.home_directory \in p.home
    /\ p.group_name = {} \/ group.name \in p.group_name
    /\ p.id = {} \/ \E k \in 1..Len(group.instances) : group.instances[k].id \in p.id
    /\ p.instance_name = {}
           \/ \E k \in 1..Len(group.instances) :
                  group.instances[k].name \in p.instance_name

\* The group matches the set home and group name, and the instance itself
\* matches the set id and instance name.
InstanceMatches(p, group, instance) ==
    /\ p.home = {} \/ group.home_directory \in p.home
    /\ p.group_name = {} \/ group.name \in p.group_name
    /\ p.id = {} \/ instance.id \in p.id
    /\ p.instance_name = {} \/ instance.name \in p.instance_name

\* The positions <<group, instance>> of the stored instances matching p.
MatchingPositions(d, p) ==
    {q \in (1..Len(d.instance_groups)) \X (1..MaxInstancesPerGroup) :
        /\ q[2] <= Len(d.instance_groups[q[1]].instances)
        /\ InstanceMatches(p, d.instance_groups[q[1]],
                           d.instance_groups[q[1]].instances[q[2]])}

\* Position q comes before position r in registry order.
Before(q, r) == q[1] < r[1] \/ (q[1] = r[1] /\ q[2] < r[2])

(***************************************************************************)
(* C9.  P6, P7: FindGroups(F) returns exactly the stored groups, in        *)
(* registry order, for which every set field of F matches; with no field   *)
(* set it returns exactly what InstanceGroups (ListGroups) returns.        *)
(***************************************************************************)
C9_FindGroupsIsTheFilter ==
    last.op = "FindGroups"
    => /\ ret = SelectSeq(groups, LAMBDA group : GroupMatches(param, group))
       /\ param = NoParam => ret = InstanceGroups(data).value

\* Id and instance name are both set and a returned group satisfies them
\* by two different instances, while another stored group is left out.
C9_Witness ==
    /\ last.op = "FindGroups"
    /\ param.id # {} /\ param.instance_name # {}
    /\ Len(ret) = 1
    /\ Len(groups) = MaxGroups
    /\ \A k \in 1..Len(ret[1].instances) :
           ret[1].instances[k].id \notin param.id
               \/ ret[1].instances[k].name \notin param.instance_name

(***************************************************************************)
(* C10.  FindInstances(F) returns exactly the stored instances, in         *)
(* registry order, whose group matches the set group name and home and     *)
(* which themselves match the set id and instance name; with id and        *)
(* instance name both set, one and the same instance satisfies both.       *)
(***************************************************************************)
C10_FindInstancesIsTheFilter ==
    last.op = "FindInstances"
    => LET positions == MatchingPositions(data, param)
       IN  /\ Len(ret) = Cardinality(positions)
           /\ \A q \in positions :
                  LET n == 1 + Cardinality({r \in positions : Before(r, q)})
                  IN  ret[n] = LocalInstance(groups[q[1]], groups[q[1]].instances[q[2]])
           /\ \A n \in 1..Len(ret) :
                  /\ param.id = {} \/ ret[n].instance_id \in param.id
                  /\ param.instance_name = {}
                         \/ ret[n].per_instance_name \in param.instance_name

\* Id and instance name are both set and no single instance has both, so
\* nothing is returned, although FindGroups returns a group for the filter.
C10_Witness ==
    /\ last.op = "FindInstances"
    /\ param.id # {} /\ param.instance_name # {}
    /\ ret = <<>>
    /\ FindGroups(data, param) # <<>>

(***************************************************************************)
(* C11.  RemoveInstanceGroup(name) erases exactly one group, the first in  *)
(* stored order whose name is name, and returns true; every other group,   *)
(* later groups of the same name included, keeps its content and its       *)
(* relative order, and the optout flag is kept; when no group has that     *)
(* name it returns false and the data is unchanged.                        *)
(***************************************************************************)
NamedPositions(d, group_name) ==
    {i \in 1..Len(d.instance_groups) : d.instance_groups[i].name = group_name}

C11_RemoveErasesFirstNamed ==
    last.op = "RemoveInstanceGroup"
    => LET gs == pre.instance_groups
           hits == NamedPositions(pre, arg.group_name)
       IN  IF hits = {}
           THEN last.res = "false" /\ data = pre
           ELSE LET k == CHOOSE i \in hits : \A j \in hits : i <= j
                IN  /\ last.res = "true"
                    /\ Len(groups) = Len(gs) - 1
                    /\ \A i \in 1..Len(groups) :
                           groups[i] = IF i < k THEN gs[i] ELSE gs[i + 1]
                    /\ data.acloud_translator_optout = pre.acloud_translator_optout

\* A removal from three stored groups of which the first and the last have
\* the name: the two others stay, the later group of that name included.
C11_Witness ==
    /\ last.op = "RemoveInstanceGroup"
    /\ last.res = "true"
    /\ Len(pre.instance_groups) = 3
    /\ NamedPositions(pre, arg.group_name) = {1, 3}
    /\ groups = <<pre.instance_groups[2], pre.instance_groups[3]>>
    /\ pre.instance_groups[2] # pre.instance_groups[3]

(***************************************************************************)
(* Vocabulary of the claims on start requests.                             *)
(***************************************************************************)
Has(r, name) == \E i \in DOMAIN events[r] : events[r][i].name = name

\* HandleInterruptSignals of the request has stored its descriptor.
Armed(r) == Has(r, "exchange")

\* No run of InterruptHandler is under way.
HandlersQuiet == \A k \in Deliveries : interrupt_handler[k].pc \in {"none", "returned"}

\* StopHandlingInterruptSignals of the request has returned.
Stopped(r) == handle[r].pc \in {"line738", "line739", "returned"} /\ Armed(r)

(***************************************************************************)
(* C12.  In every interleaving of runs of InterruptHandler with the arming *)
(* and the teardown, no write and no close is made on a descriptor that    *)
(* was closed before: whoever is about to write to or to close a           *)
(* descriptor holds one that is open.                                      *)
(***************************************************************************)
C12_NoUseOfClosedDescriptor ==
    /\ ~process.bad_fd
    /\ \A k \in Deliveries :
           interrupt_handler[k].pc \in {"line73", "line81"}
           => fd_table[interrupt_handler[k].fd] = "open"
    /\ \A r \in Requests :
           handle[r].pc = "line106" => fd_table[handle[r].fd] = "open"

\* The teardown met IN_USE_FD, a run of the handler wrote and then closed
\* the descriptor itself, while the other run was under way.
C12_Witness ==
    /\ handle["r1"].fd = IN_USE_FD
    /\ Stopped("r1")
    /\ \E k, j \in Deliveries :
           /\ interrupt_handler[k].pc = "returned"
           /\ interrupt_handler[k].wrote
           /\ interrupt_handler[k].fd >= 0
           /\ fd_table[interrupt_handler[k].fd] = "closed"
           /\ interrupt_handler[j].pc \notin {"none", "returned"}

(***************************************************************************)
(* C13.  Once StopHandlingInterruptSignals has returned and no run of      *)
(* InterruptHandler is under way, the slot holds CLOSED_FD and the         *)
(* descriptor stored at arming has been closed, once.                      *)
(* Violated: two overlapping runs of the handler leave the slot at         *)
(* CLOSED_FD with the descriptor open.                                     *)
(***************************************************************************)
C13_TeardownClosesOnce ==
    \A r \in Requests :
        (Stopped(r) /\ HandlersQuiet)
        => /\ signal_pipe_write_end = CLOSED_FD
           /\ fd_table[StoredInSlot(pipe2(r))] = "closed"
           /\ ~process.bad_fd

(***************************************************************************)
(* C14.  HandleInterruptSignals always finds CLOSED_FD in the slot when it *)
(* stores its descriptor, so its CHECK never fails, in every interleaving  *)
(* of start requests handled in parallel and of signal handlers still      *)
(* under way.                                                              *)
(* Violated: nothing keeps a second request from arming while the first    *)
(* is armed.                                                               *)
(***************************************************************************)
C14_ArmingFindsSlotClosed == process.state # "aborted"

(***************************************************************************)
(* C15.  A signal delivered while the pipe is armed and the child is       *)
(* supervised reaches the child: the handler writes the signal number to   *)
(* the pipe, the interrupter thread reads it and calls Interrupt.  When    *)
(* Handle has joined the interrupter thread, a signal whose handler wrote   *)
(* to the pipe while Handle was in Wait has been followed by Interrupt.    *)
(* Violated: the handler is given the end of the pipe that is open for     *)
(* reading and the thread the end that is open for writing.                *)
(***************************************************************************)
C15_SignalInterruptsChild ==
    \A r \in Requests :
        (/\ handle[r].pc \in {"line739", "returned"}
         /\ Armed(r)
         /\ \E k \in Deliveries : interrupt_handler[k].supervised)
        => Has(r, "Interrupt")

(***************************************************************************)
(* C16.  Every path of Handle that armed the signal pipe disarms it before *)
(* Handle returns: the default handlers are back and the teardown has      *)
(* swapped CLOSED_FD into the slot, which holds it once no handler run is  *)
(* under way.  A path that returns before the arming leaves the slot, the  *)
(* handlers and the descriptors as they were.                              *)
(***************************************************************************)
C16_ArmedPathsDisarm ==
    \A r \in Requests :
        handle[r].pc = "returned"
        => IF Armed(r)
           THEN /\ signal_handlers = "SIG_DFL"
                /\ Has(r, "StopHandlingInterruptSignals")
                /\ HandlersQuiet => signal_pipe_write_end = CLOSED_FD
           ELSE /\ signal_handlers = "SIG_DFL"
                /\ signal_pipe_write_end = CLOSED_FD
                /\ \A fd \in Fds : fd_table[fd] = "unused"

\* Handle has returned the conflict of the registration, disarmed.
C16_Witness ==
    /\ handle["r1"].pc = "returned"
    /\ Armed("r1")
    /\ handle["r1"].response = Error("Conflict")
    /\ Has("r1", "StopHandlingInterruptSignals")

(***************************************************************************)
(* C17.  A start request that armed the pipe ends by the closing of the    *)
(* pipe: when the join of the interrupter thread has returned, the end of  *)
(* the pipe stored in the slot has been closed and the thread has closed   *)
(* the end it read from.                                                   *)
(* Violated: the read of the thread fails at once and the thread ends      *)
(* without closing its descriptor.                                         *)
(***************************************************************************)
C17_JoinFollowsPipeClosure ==
    \A r \in Requests :
        (handle[r].pc \in {"line739", "returned"} /\ Armed(r))
        => /\ fd_table[pipe2(r).fds0] = "closed"
           /\ fd_table[pipe2(r).fds1] = "closed"

\* Wait has returned the end of the launcher child of a start request, which
\* exited with a code that is not 0 or was killed by a signal.
ChildFailed(r) ==
    /\ handle[r].path = "start"
    /\ Has(r, "Wait")
    /\ child[r].infop.si_code # "CLD_EXITED" \/ child[r].infop.si_status # 0

\* Event a of the request comes before its event b.
Precedes(r, a, b) ==
    \E i, j \in DOMAIN events[r] :
        i < j /\ events[r][i].name = a /\ events[r][j].name = b

\* The group of the request's plan is in the registry.
Registered(r) ==
    \E i \in DOMAIN data.instance_groups :
        data.instance_groups[i] = handle[r].group_creation_info

(***************************************************************************)
(* C18.  When the child of a start request failed, the processes of the    *)
(* group are force-stopped by the id of the first instance of the plan     *)
(* (whenever the process collector is obtained), then the group is         *)
(* removed: when the request has finished, the registry holds no group of  *)
(* the plan's name other than one that was there before the request.       *)
(* Violated: the removal erases the first group of that name, which can be *)
(* another group than the one the request added.                           *)
(***************************************************************************)
C18_ChildFailureRollsBack ==
    \A r \in Requests :
        (handle[r].pc = "returned" /\ ChildFailed(r))
        => LET plan == handle[r].group_creation_info
               stored == data.instance_groups
               before == handle[r].before.instance_groups
           IN  /\ Has(r, "CvdResetGroup")
               /\ Has(r, "ForcefullyStopGroup") \/ Has(r, "kCollectorFailure")
               /\ \A i \in DOMAIN events[r] :
                      events[r][i].name = "ForcefullyStopGroup"
                      => events[r][i].id = plan.instances[1].id
               /\ Precedes(r, "CvdResetGroup", "RemoveInstanceGroup")
               /\ \A i \in DOMAIN stored :
                      stored[i].name = plan.name
                      => \E j \in DOMAIN before : before[j] = stored[i]

(***************************************************************************)
(* C19.  When the child failed and the force-stop succeeded, Handle        *)
(* returns the response made from the way the child ended: a response of   *)
(* status INTERNAL that carries the child's siginfo, not an error.         *)
(* Violated: after the rollback Handle looks the removed group up by name  *)
(* and returns the error of the lookup.                                    *)
(***************************************************************************)
C19_ChildFailureIsReturned ==
    \A r \in Requests :
        (/\ handle[r].pc = "returned"
         /\ ChildFailed(r)
         /\ Has(r, "ForcefullyStopGroup")
         /\ ~Has(r, "kStopFailure"))
        => /\ handle[r].response.ok
           /\ handle[r].response.code = "INTERNAL"
           /\ handle[r].response.infop = child[r].infop

(***************************************************************************)
(* C20.  While the child of a start request or a run_cvd process of its    *)
(* launch is alive, the registry holds the group of the request.           *)
(* Violated: the group is removed on every failure of LaunchDevice, also   *)
(* when Setup failed after the child was started and when the force-stop   *)
(* did not stop the run_cvd processes.                                     *)
(***************************************************************************)
C20_LiveProcessesAreRegistered ==
    \A r \in Requests :
        (handle[r].path = "start" /\ (child[r].launcher = "running" \/ child[r].run_cvd))
        => Registered(r)

\* UpdateInstanceDatabase of the request has failed: the plan was not added.
RegistrationFailed(r) ==
    /\ handle[r].path = "start"
    /\ Armed(r)
    /\ handle[r].pc \notin {"line716", "line98", "line819"}
    /\ ~Has(r, "SetInstanceGroup")

(***************************************************************************)
(* C21.  When the registration of the plan fails in a start request, no    *)
(* child is started, there is no force-stop and no removal, the registry   *)
(* is what it was before the request, and Handle returns the error of the  *)
(* registration.                                                           *)
(***************************************************************************)
C21_FailedRegistrationHasNoEffect ==
    \A r \in Requests :
        RegistrationFailed(r)
        => /\ child[r] = [launcher |-> "none", infop |-> NoInfop, run_cvd |-> FALSE]
           /\ ~Has(r, "Setup")
           /\ ~Has(r, "CvdResetGroup")
           /\ ~Has(r, "ForcefullyStopGroup")
           /\ ~Has(r, "RemoveInstanceGroup")
           /\ data = handle[r].before
           /\ handle[r].launch_res \in {Error("Conflict"), Error("Invalid")}
           /\ handle[r].pc = "returned" => handle[r].response = handle[r].launch_res

\* The plan conflicted with the group of the registry, and Handle returned.
C21_Witness ==
    /\ RegistrationFailed("r1")
    /\ handle["r1"].pc = "returned"
    /\ handle["r1"].response = Error("Conflict")
    /\ Len(data.instance_groups) = 1
    /\ data = handle["r1"].before

\* Wait has returned the end of the launcher child of a start request, which
\* exited with code 0.
ChildSucceeded(r) ==
    /\ handle[r].path = "start"
    /\ Has(r, "Wait")
    /\ child[r].infop = [si_code |-> "CLD_EXITED", si_status |-> 0]

(***************************************************************************)
(* C22.  A start request whose registration succeeded and whose child      *)
(* exited with code 0 ends with the group of the plan in the registry and  *)
(* with an OK response that carries the group, and never removes it.       *)
(* Violated: Handle looks the new group up by its name alone and returns   *)
(* the error of the lookup when a group of another home has that name.     *)
(***************************************************************************)
C22_SuccessKeepsGroupAndAnswersOK ==
    \A r \in Requests :
        (handle[r].pc = "returned" /\ ChildSucceeded(r))
        => /\ Registered(r)
           /\ ~Has(r, "RemoveInstanceGroup")
           /\ handle[r].response.ok
           /\ handle[r].response.code = "OK"
           /\ handle[r].response.info = <<handle[r].group_creation_info>>

\* The request has left nothing but its start: the registry is the one it
\* met, the signal pipe was never armed, no handler was installed and no
\* descriptor was made.
NoSideEffect(r) ==
    /\ data = handle[r].before
    /\ ~Has(r, "SetInstanceGroup")
    /\ ~Has(r, "RemoveInstanceGroup")
    /\ ~Armed(r)
    /\ signal_pipe_write_end = CLOSED_FD
    /\ signal_handlers = "SIG_DFL"
    /\ \A fd \in Fds : fd_table[fd] = "unused"
    /\ interrupter_thread[r] = "none"

(***************************************************************************)
(* C23.  A start request for --help adds and removes no group, does not    *)
(* arm the signal pipe and makes no force-stop; once the waiter has taken  *)
(* the help command, Handle waits for it and returns the response made     *)
(* from the way it ended, whatever that is.                                *)
(***************************************************************************)
C23_HelpOnlyRunsTheCommand ==
    \A r \in Requests :
        handle[r].path = "help"
        => /\ NoSideEffect(r)
           /\ ~Has(r, "CvdResetGroup")
           /\ ~Has(r, "ForcefullyStopGroup")
           /\ (handle[r].pc = "returned" /\ Has(r, "Setup"))
                  => /\ Precedes(r, "Setup", "Wait")
                     /\ handle[r].response.ok
                     /\ handle[r].response.infop = child[r].infop
                     /\ handle[r].response.code = "OK"
                            <=> child[r].infop = [si_code |-> "CLD_EXITED", si_status |-> 0]

\* The help command was killed by a signal and Handle has returned that.
C23_Witness ==
    /\ handle["r1"].path = "help"
    /\ handle["r1"].pc = "returned"
    /\ child["r1"].infop = [si_code |-> "CLD_KILLED", si_status |-> 9]
    /\ handle["r1"].response.code = "INTERNAL"
    /\ Len(data.instance_groups) = 1

\* The argument is a daemon flag: -daemon, --daemon, -nodaemon, --nodaemon,
\* or -daemon=<v>, --daemon=<v>.
IsDaemonFlag(a) ==
    \/ a \in {<<"-">> \o daemon, <<"-", "-">> \o daemon,
              <<"-", "n", "o">> \o daemon, <<"-", "-", "n", "o">> \o daemon}
    \/ StartsWith(a, <<"-">> \o daemon \o <<"=">>)
    \/ StartsWith(a, <<"-", "-">> \o daemon \o <<"=">>)

\* The value v of a daemon flag -daemon=<v> or --daemon=<v>.
DaemonValueOf(a) ==
    IF StartsWith(a, <<"-">> \o daemon \o <<"=">>)
    THEN SubSeq(a, Len(daemon) + 3, Len(a))
    ELSE SubSeq(a, Len(daemon) + 4, Len(a))

\* The argument is one the normalization has to refuse.
RefusedDaemonFlag(a) ==
    \/ a \in {<<"-", "n", "o">> \o daemon, <<"-", "-", "n", "o">> \o daemon}
    \/ /\ IsDaemonFlag(a)
       /\ a \notin {<<"-">> \o daemon, <<"-", "-">> \o daemon}
       /\ LET v == DaemonValueOf(a)
          IN  \/ \E i \in 1..Len(v) : v[i] = ","
              \/ \A t \in kValidTrueStrings : ~EqualsIgnoreCase(t, v)

(***************************************************************************)
(* C28.  The normalization of the daemon flags refuses an argument list    *)
(* exactly when it holds -nodaemon, --nodaemon, or a -daemon=<v> or        *)
(* --daemon=<v> whose v has a comma or is not y, yes or true in any letter *)
(* case; otherwise its result is the list without its daemon flags,        *)
(* followed by --daemon=true, its only daemon flag.                        *)
(* Violated: a value that equals the alias it follows, as --daemon= in     *)
(* --daemon=--daemon=, is taken for a flag without a value and accepted.   *)
(***************************************************************************)
C28_DaemonModeNormalized ==
    last.op = "NormalizeDaemonMode"
    => LET args == arg[1]
           result == ret[1]
           refused == \E i \in 1..Len(args) : RefusedDaemonFlag(args[i])
       IN  /\ result.ok <=> ~refused
           /\ result.ok
              => /\ result.args =
                        Append(SelectSeq(args, LAMBDA a : ~IsDaemonFlag(a)), DaemonTrue)
                 /\ \A i \in 1..Len(result.args) :
                        IsDaemonFlag(result.args[i]) <=> i = Len(result.args)

\* The request is one that lines 638-698 have to end: its precondition
\* fails, its HOME begins with ~, it has no ANDROID_HOST_OUT, or its daemon
\* flags are refused.
Rejected(req) ==
    /\ ~req.config_file
    /\ \/ ~req.precondition
       \/ req.HOME # <<>> /\ req.HOME[1] # <<>> /\ req.HOME[1][1] = "~"
       \/ req.host_out = "absent"
       \/ ~NormalizeDaemonMode(req.subcmd_args).ok

(***************************************************************************)
(* C24.  A start request whose precondition fails, whose HOME begins with  *)
(* ~, which has no ANDROID_HOST_OUT or whose daemon flags are refused ends *)
(* at once and without a side effect: no group is added, no child is       *)
(* started and the signal pipe is not armed.  Its response has the status  *)
(* FAILED_PRECONDITION when the precondition failed and is an error        *)
(* otherwise.                                                              *)
(***************************************************************************)
C24_RejectedBeforeSideEffects ==
    \A r \in Requests :
        (handle[r].request # <<>> /\ Rejected(handle[r].request[1]))
        => LET req == handle[r].request[1]
           IN  /\ handle[r].pc = "returned"
               /\ NoSideEffect(r)
               /\ child[r] = [launcher |-> "none", infop |-> NoInfop, run_cvd |-> FALSE]
               /\ events[r] = <<>>
               /\ IF req.precondition THEN ~handle[r].response.ok
                  ELSE /\ handle[r].response.ok
                       /\ handle[r].response.code = "FAILED_PRECONDITION"

\* A request with HOME=~/x met a registry with a group and was refused.
C24_Witness ==
    /\ handle["r1"].request # <<>>
    /\ handle["r1"].request[1].HOME = <<(<<"~", "/", "x">>)>>
    /\ handle["r1"].request[1].precondition
    /\ handle["r1"].pc = "returned"
    /\ ~handle["r1"].response.ok
    /\ Len(data.instance_groups) = 1


(***************************************************************************)
(* The rewriter.                                                           *)
(***************************************************************************)
\* The rewriter has returned arguments and an environment.
Rewritten == last.op = "UpdateArgsAndEnvs" /\ last.res = "ok"

RewriteIds == arg[1].instances

\* The arguments of the result that are the flag, in any spelling.
FlagArgs(args, flag) == {k \in 1..Len(args) : IsGflag(args[k], <<flag>>)}

\* The ids are a strictly increasing run of consecutive integers.
IsRun(ids) == \A k \in 1..(Len(ids) - 1) : ids[k + 1] = ids[k] + 1

\* The result holds the flag exactly once, and with this value.
EmitsOnce(args, flag, value) ==
    /\ Cardinality(FlagArgs(args, flag)) = 1
    /\ \E k \in 1..Len(args) : args[k] = <<"-", "-">> \o flag \o <<"=">> \o value

\* What C26 says of the arguments the rewriter emits for the ids.
EmissionOf(args, ids, launcher_flags) ==
    IF ~IsRun(ids)
    THEN /\ EmitsOnce(args, instance_nums, BaseJoin(ids, <<",">>))
         /\ FlagArgs(args, num_instances) = {}
         /\ FlagArgs(args, base_instance_num) = {}
    ELSE /\ FlagArgs(args, instance_nums) = {}
         /\ IF Len(ids) > 1
            THEN EmitsOnce(args, num_instances, to_string(Len(ids)))
            ELSE FlagArgs(args, num_instances) = {}
         /\ IF base_instance_num \in launcher_flags
            THEN EmitsOnce(args, base_instance_num, to_string(MinElement(ids)))
            ELSE FlagArgs(args, base_instance_num) = {}

\* C26 as stated: for every non-empty list of ids the rewriter emits
\* --instance_nums=<ids joined by commas>, and neither --num_instances nor
\* --base_instance_num, exactly when the ids are not a strictly increasing
\* run of consecutive integers; otherwise it emits no --instance_nums,
\* --num_instances=<count> exactly when there is more than one id, and
\* --base_instance_num=<min> only if the launcher accepts the flag; what the
\* client wrote of the three flags does not survive.
C26_EmitsInstanceFlags ==
    last.op = "UpdateArgsAndEnvs" =>
        /\ last.res = "ok"
        /\ EmissionOf(ret[1].info.args, RewriteIds, arg[2])

\* C26, amended: whenever the rewriter returns arguments, they are the ones
\* C26 names; and it returns an error, and no arguments, when the flag it has
\* to emit (instance_nums for ids that are no run, num_instances for a run
\* of more than one id) is not accepted by the launcher.
C26_EmitsInstanceFlagsWhenAccepted ==
    last.op = "UpdateArgsAndEnvs" =>
        /\ last.res = "ok" => EmissionOf(ret[1].info.args, RewriteIds, arg[2])
        /\ (~IsRun(RewriteIds) /\ instance_nums \notin arg[2]) => last.res = "error"
        /\ (IsRun(RewriteIds) /\ Len(RewriteIds) > 1 /\ num_instances \notin arg[2])
               => last.res = "error"

C26_Witness ==
    /\ Rewritten
    /\ ~IsRun(RewriteIds)
    /\ Len(RewriteIds) = 3
    /\ \E k \in 1..Len(arg[1].args) : IsGflag(arg[1].args[k], instance_id_flags)

\* C27: after the rewriter has run, the environment of the child has HOME
\* equal to the home of the group, ANDROID_HOST_OUT and
\* ANDROID_SOONG_HOST_OUT equal to the host artifacts path,
\* ANDROID_PRODUCT_OUT equal to the product out path and CVD_MARK equal to
\* true, whatever the client had set; and CUTTLEFISH_INSTANCE is the
\* smallest id whenever the ids are a sorted run of consecutive integers, a
\* single id included.
C27_EnvironmentOfTheChild ==
    Rewritten =>
        LET info == arg[1]
            envs == ret[1].info.envs
        IN  /\ {"HOME", "ANDROID_HOST_OUT", "ANDROID_SOONG_HOST_OUT",
                "ANDROID_PRODUCT_OUT", "CVD_MARK"} \subseteq DOMAIN envs
            /\ envs["HOME"] = info.home
            /\ envs["ANDROID_HOST_OUT"] = info.host_artifacts_path
            /\ envs["ANDROID_SOONG_HOST_OUT"] = info.host_artifacts_path
            /\ envs["ANDROID_PRODUCT_OUT"] = info.product_out_path
            /\ envs["CVD_MARK"] = <<"t", "r", "u", "e">>
            /\ IsRun(info.instances) =>
                   /\ "CUTTLEFISH_INSTANCE" \in DOMAIN envs
                   /\ envs["CUTTLEFISH_INSTANCE"]
                          = to_string(MinElement(info.instances))

C27_Witness ==
    /\ Rewritten
    /\ IsRun(RewriteIds)
    /\ Len(RewriteIds) > 1
    /\ "HOME" \in DOMAIN arg[1].envs
    /\ arg[1].envs["HOME"] # arg[1].home
    /\ arg[1].envs["CUTTLEFISH_INSTANCE"] # to_string(MinElement(RewriteIds))

\* C25: the rewriter is idempotent: for every group creation info and every
\* set of flags the launcher accepts, group_id included, the rewriter
\* applied to its own result returns the same arguments and the same
\* environment as the rewriter applied once.
C25_RewriterIsIdempotent ==
    last.op = "UpdateArgsAndEnvsAgain" =>
        /\ ret[2].ok
        /\ ret[2].info.args = ret[1].info.args
        /\ ret[2].info.envs = ret[1].info.envs

(***************************************************************************)
(* C29.  Within one start request: the group is registered before the      *)
(* child is launched (Supervisor.Setup), the child is launched before      *)
(* Wait, the signal bridge is armed before Setup, the end of a launched    *)
(* child (by itself or by an interruption) comes before any removal of the *)
(* group from the registry, and the removal comes before the bridge is     *)
(* disarmed.                                                               *)
(***************************************************************************)
\* Every event a of the request comes before every event b of it.
AllBefore(r, a, b) ==
    LET as == {i \in DOMAIN events[r] : events[r][i].name = a}
        bs == {j \in DOMAIN events[r] : events[r][j].name = b}
    IN  \A i \in as, j \in bs : i < j

Marked(r) == Has(r, "MarkLockfilesInUse") \/ Has(r, "MarkLockfilesInUseFailed")

\* CreateSymlinks was run, with or without success.
Symlinked(r) == Has(r, "CreateSymlinks") \/ Has(r, "CreateSymlinksFailed")

\* One of the calls whose failure is only logged has failed.
BestEffortFailed(r) ==
    \/ Has(r, "AcloudCompatActionsFailed")
    \/ Has(r, "CreateSymlinksFailed")
    \/ Has(r, "MarkLockfilesInUseFailed")

\* LaunchDeviceInterruptible of the request has returned.
Launched(r) ==
    handle[r].pc \in {"line737", "line104", "line106", "line738", "line739", "returned"}

C30_PostLaunchOnlyOnSuccess ==
    \A r \in Requests :
        handle[r].path = "start" =>
            /\ Marked(r) =>
                   /\ ChildSucceeded(r)
                   /\ ~Has(r, "RemoveInstanceGroup")
                   /\ ~Has(r, "CvdResetGroup")
            /\ Symlinked(r) =>
                   /\ ChildSucceeded(r)
                   /\ handle[r].is_default_group
                   /\ ~Has(r, "RemoveInstanceGroup")
            /\ BestEffortFailed(r) =>
                   /\ Has(r, "RemoveInstanceGroup") => ChildFailed(r)
                   /\ Has(r, "CvdResetGroup") => ChildFailed(r)
                   /\ Launched(r) => Has(r, "Wait")
                   /\ (Launched(r) /\ ChildSucceeded(r)) =>
                          /\ handle[r].launch_res = ResponseFromSiginfo(child[r].infop)
                          /\ handle[r].launch_res.code = "OK"
                          /\ Registered(r)

C30_Witness ==
    \E r \in Requests :
        /\ handle[r].path = "start"
        /\ handle[r].pc = "returned"
        /\ handle[r].is_default_group
        /\ Has(r, "AcloudCompatActionsFailed")
        /\ Has(r, "CreateSymlinksFailed")
        /\ Has(r, "MarkLockfilesInUseFailed")
        /\ handle[r].launch_res.code = "OK"

(***************************************************************************)
(* C31.  When the child failed and the force-stop itself failed (the       *)
(* process collector was not obtained, or stopping the group failed), the  *)
(* start request returns a response of status INTERNAL with the guidance   *)
(* text (kCollectorFailure or kStopFailure), and the group of the request  *)
(* is no longer in the registry.                                           *)
(***************************************************************************)
\* CvdResetGroup of the request answered with one of its guidance texts.
ForceStopFailed(r) == Has(r, "kCollectorFailure") \/ Has(r, "kStopFailure")

C31_ForceStopFailureIsReturned ==
    \A r \in Requests :
        (/\ handle[r].pc = "returned"
         /\ ChildFailed(r)
         /\ ForceStopFailed(r))
        => /\ handle[r].response.ok
           /\ handle[r].response.code = "INTERNAL"
           /\ handle[r].response.message \in {"kCollectorFailure", "kStopFailure"}
           /\ ~Registered(r)

(***************************************************************************)
(* C32.  A Clear whose callback fails under the exclusive lock, after it   *)
(* has emptied the group list of its view, leaves the persisted registry   *)
(* as it was.                                                              *)
(***************************************************************************)
\* The last call was made right after a Clear that failed, and pre is the
\* persisted data that Clear took its lock on.
ClearFailed == last.op = "Clear" /\ last.res # "ok"

\* C32 as stated: after a Clear that failed because a stored group does not
\* re-validate, the persisted registry is unchanged, and a following
\* InstanceGroups (ListGroups) and a following IsEmpty still observe all the
\* groups that were stored before the Clear.
C32_FailedClearKeepsGroupsListed ==
    /\ ClearFailed => data = pre
    /\ last.op = "IsEmptyAfterClear" => ret = <<FALSE>>
    /\ last.op = "InstanceGroupsAfterClear" =>
           /\ last.res = "ok"
           /\ ret = pre.instance_groups

\* C32, amended: after a Clear that failed because a stored group does not
\* re-validate, the persisted registry is what it was before the Clear; a
\* following IsEmpty answers false; a following InstanceGroups (ListGroups)
\* reads the unchanged registry and fails on the group that does not
\* re-validate, as it did before the Clear, and returns no groups.
C32_FailedClearKeepsRegistry ==
    /\ ClearFailed => (data = pre /\ ClearLocked(pre).data.instance_groups = <<>>)
    /\ last.op = "IsEmptyAfterClear" => (data = pre /\ ret = <<FALSE>>)
    /\ last.op = "InstanceGroupsAfterClear" =>
           /\ data = pre
           /\ ~InstanceGroups(pre).ok
           /\ last.res = "Invalid"
           /\ ret = <<>>

C32_Witness ==
    /\ last.op = "IsEmptyAfterClear"
    /\ Len(pre.instance_groups) = MaxGroups
    /\ Create(pre.instance_groups[1])
    /\ ~Create(pre.instance_groups[2])

(***************************************************************************)
(* C33.  The rollback of a failed start request removes the group the      *)
(* request registered and no other: every group that was in the registry   *)
(* before the request, also one of the same group name under another home, *)
(* is still there, unchanged, after the rollback.                          *)
(***************************************************************************)
C33_RollbackRemovesOwnGroupOnly ==
    \A r \in Requests :
        (handle[r].path = "start" /\ Has(r, "RemoveInstanceGroup"))
        => LET stored == data.instance_groups
               before == handle[r].before.instance_groups
           IN  \A j \in DOMAIN before :
                   \E i \in DOMAIN stored : stored[i] = before[j]
====
